---- MODULE Spec2Model ----
(***************************************************************************)
(* Scan -> Report -> Fix pipeline of the accessibility and SEO plugins.    *)
(*                                                                         *)
(* Text model.  A file's content is the sequence of its lines, as          *)
(* content.split('\n') yields them; a line is a sequence of tokens, each   *)
(* token a literal piece of markup.  A regular expression of the source    *)
(* is the predicate that says which tokens contain a match.  An absent     *)
(* file is the empty sequence of lines (an existing file has at least one  *)
(* line: ''.split('\n') is ['']).                                          *)
(*                                                                         *)
(* A path is a sequence of components, and filePath + '.bak' appends the   *)
(* component ".bak".                                                       *)
(***************************************************************************)
EXTENDS Integers, Sequences, FiniteSets, TLC

\* ------------------------------------------------------------------ bounds
MaxLines == 2
MaxRuns == 2
MaxFindings == 2
MaxIssues == 2

\* ------------------------------------------------------------- generic text
RECURSIVE IndexFrom(_, _, _)
\* first position >= from of a token in S, 0 when there is none
\* (String.prototype.indexOf / RegExp.exec .index, 1-based)
IndexFrom(line, S, from) ==
  IF from > Len(line) THEN 0
  ELSE IF line[from] \in S THEN from
  ELSE IndexFrom(line, S, from + 1)

IndexOf(line, S) == IndexFrom(line, S, 1)

Test(line, S) == IndexOf(line, S) # 0

\* line.slice(0, pos) + ins + line.slice(pos): ins placed after position pos
InsertAfter(line, pos, ins) ==
  SubSeq(line, 1, pos) \o ins \o SubSeq(line, pos + 1, Len(line))

\* line.replace(/re/, tok): the first token in S replaced by tok
ReplaceFirst(line, S, tok) ==
  LET p == IndexOf(line, S)
  IN IF p = 0 THEN line ELSE [line EXCEPT ![p] = tok]

\* line.substring(a, b) on token positions (0-based, end exclusive); as in
\* JavaScript the two arguments are swapped when a > b, and negative
\* arguments count as 0
Substring(line, a, b) ==
  LET a0 == IF a < 0 THEN 0 ELSE a
      b0 == IF b < 0 THEN 0 ELSE b
      lo == IF a0 <= b0 THEN a0 ELSE b0
      hi == IF a0 <= b0 THEN b0 ELSE a0
  IN SubSeq(line, lo + 1, hi)

Bak(p) == Append(p, ".bak")

Fail(fsys, reason) == [fs |-> fsys, success |-> FALSE, msg |-> reason]

\* fs.writeFileSync(filePath + '.bak', content); fs.writeFileSync(filePath, new)
WriteWithBackup(fsys, p, content, new, action) ==
  [fs |-> [fsys EXCEPT ![Bak(p)] = content, ![p] = new],
   success |-> TRUE, msg |-> action]

\* ----------------------------------------------------------------- tokens
ImgOpen == "<img "
ImageOpen == "<Image "
DivOpen == "<div "
SpanOpen == "<span "
Gt == ">"
SelfClose == "/>"
AltEmpty == "alt=\"\" "
AltTodo == "alt=\"TODO: describe image\" "
SrcIcon == "src=\"icon.png\""
SrcPhoto == "src=\"photo.png\""
TabPos == "tabindex=\"3\""
TabZero == "tabindex=\"0\""
TabNeg == "tabindex=\"-1\""
DivClose == "</div>"
SpanClose == "</span>"

\* tokens that contain the character '>'
HasGt == {Gt, SelfClose, DivClose, SpanClose, "</a>", "</button>", "</Link>",
          "<h1>", "</h1>", "<h2>", "</h2>", "<h3>", "</h3>",
          "<head>", "<body>", "</body>", "<header>", "</header>", "<footer>",
          "<main>", "</main>", "<nav>", "</nav>"}

\* /\balt\s*=/
AltAttr == {AltEmpty, AltTodo, "alt=\"TODO: Add descriptive alt text\" "}
\* /tabindex\s*=\s*["']?\d+["']?/
TabindexNum == {TabPos, TabZero}
\* /tabindex\s*=/
TabindexAttr == {TabPos, TabZero, TabNeg}
\* /<(div|span)\s/
DivSpanOpen == {DivOpen, SpanOpen}
\* DECORATIVE_HINTS tested against the value of src / class
DecorativeSrc == {SrcIcon}

\* ------------------------------------------------- apply-keyboard-fix.js
fixPositiveTabindex(fsys, issue, content) ==
  LET lines == content
      ln == issue.line
  IN IF ln < 1 \/ ln > Len(lines)
     THEN Fail(fsys, "Could not locate the issue line.")
     ELSE IF ~Test(lines[ln], TabindexNum)
     THEN Fail(fsys, "tabindex not found on target line.")
     ELSE WriteWithBackup(fsys, issue.file, content,
            [lines EXCEPT ![ln] = ReplaceFirst(lines[ln], TabindexNum, TabZero)],
            "Changed positive tabindex to tabindex=\"0\"")

KeyboardAddTabindex(fsys, issue, content) ==
  LET lines == content
      ln == issue.line
  IN IF ln < 1 \/ ln > Len(lines)
     THEN Fail(fsys, "Could not locate the issue line.")
     ELSE IF Test(lines[ln], TabindexAttr)
     THEN Fail(fsys, "Element already has tabindex.")
     ELSE IF ~Test(lines[ln], DivSpanOpen)
     THEN Fail(fsys, "Could not find div/span tag on target line.")
     ELSE WriteWithBackup(fsys, issue.file, content,
            [lines EXCEPT ![ln] =
               InsertAfter(lines[ln], IndexOf(lines[ln], DivSpanOpen), <<TabZero>>)],
            "Added tabindex=\"0\" to element")

\* ------------------------------------------------------ Finding.problem
\* The problem texts the scanners emit (scan-images.js:49,62,86,
\* scan-keyboard.js:39,66,81, scan-semantics:273,286, scan-headings.js:48,85,
\* 219,270, scan-links:54,70,88, scan-gtm.js:118,278,291), and for each the
\* substrings the handlers probe it for with problem.includes(...).
P_DECOR == "Likely decorative <img> missing alt=\"\""
P_IMGALT == "<img> tag missing alt attribute"
P_NEXTALT == "Next.js Image component missing alt attribute"
P_ROLEIMG == "Element with role=\"img\" has no accessible name"
P_TABPOS == "tabindex=\"3\" - positive tabindex disrupts natural focus order"
P_NOKEY == "<div> with onClick but no keyboard event handler"
P_NOFOCUS == "<div> has keyboard handler but no tabindex - not keyboard-focusable"
P_ONCLICK == "<div> with onClick handler used as interactive control without semantic role"
P_ROLETAB == "<div> with role but missing tabindex for keyboard accessibility"
P_MULTIH1 == "Multiple H1 tags found (2 total). Only one H1 per page is recommended."
P_SKIPH == "Skipped heading level: H1 -> H3 (expected H2)"
P_NOH1 == "Page is missing an H1 tag"
P_NATIVEIMG == "Using native <img> tag instead of next/image component"
P_NEXTLINK == "Using <a href=\"/about\"> for internal navigation instead of next/link"
P_ROUTERLINK == "Using <a href=\"/about\"> for internal navigation instead of routerLink"
P_REACTLINK == "Using <a href=\"/about\"> for internal navigation instead of React Router Link"
P_EMPTYLINK == "Empty link found (no anchor text)"
P_GTMNONE == "Google Tag Manager is not installed"
P_GTMNOSCRIPT == "GTM script tag found but noscript fallback is missing"
P_GTMSCRIPT == "GTM noscript iframe found but main script tag is missing"
P_GTMHARD == "GTM container ID is hardcoded instead of using an environment variable"
P_NOMAIN == "Missing <main> landmark element"
P_NOHEADER == "Missing <header> landmark element"
P_NONAV == "Navigation links found but no <nav> landmark element"
\* the scanners of the patterns and forms categories are not among the
\* sources; these problem texts are the substrings their handlers probe
P_DLGROLE == "missing role=\"dialog\""
P_DLGMODAL == "missing aria-modal"
P_DLGTITLE == "missing accessible title"
P_PHLABEL == "placeholder as its only label"
P_NOLABEL == "no associated label"

Markers(problem) ==
  CASE problem = P_DECOR -> {"decorative", "missing alt", "<img>"}
    [] problem = P_IMGALT -> {"<img>", "missing alt", "missing alt attribute"}
    [] problem = P_NEXTALT -> {"Image component missing alt", "missing alt",
                               "missing alt attribute"}
    [] problem = P_TABPOS -> {"tabindex", "positive"}
    [] problem = P_NOFOCUS -> {"tabindex", "not keyboard-focusable"}
    [] problem = P_ONCLICK -> {"onClick handler used as interactive control"}
    [] problem = P_ROLETAB -> {"missing tabindex", "tabindex"}
    [] problem = P_MULTIH1 -> {"Multiple H1"}
    [] problem = P_SKIPH -> {"Skipped heading level"}
    [] problem = P_NATIVEIMG -> {"native <img>", "next/image"}
    [] problem = P_NEXTLINK -> {"instead of next/link", "next/link"}
    [] problem = P_ROUTERLINK -> {"instead of routerLink", "routerLink"}
    [] problem = P_REACTLINK -> {"instead of React Router", "React Router"}
    [] problem = P_GTMNONE -> {"not installed"}
    [] problem = P_GTMNOSCRIPT -> {"noscript fallback is missing"}
    [] problem = P_GTMSCRIPT -> {"main script tag is missing"}
    [] problem = P_NOMAIN -> {"Missing <main>"}
    [] problem = P_NOHEADER -> {"Missing <header>"}
    [] problem = P_NONAV -> {"no <nav>"}
    [] problem = P_DLGROLE -> {"missing role=\"dialog\""}
    [] problem = P_DLGMODAL -> {"missing aria-modal"}
    [] problem = P_DLGTITLE -> {"missing accessible title"}
    [] problem = P_PHLABEL -> {"placeholder as its only label"}
    [] problem = P_NOLABEL -> {"no associated label"}
    [] OTHER -> {}

\* problem.includes(sub)
Includes(problem, sub) == sub \in Markers(problem)

KeyboardApplyFix(fsys, issue) ==
  LET content == fsys[issue.file]
  IN IF content = <<>> THEN Fail(fsys, "File not found")
     ELSE IF Includes(issue.problem, "tabindex") /\ Includes(issue.problem, "positive")
     THEN fixPositiveTabindex(fsys, issue, content)
     ELSE IF Includes(issue.problem, "tabindex")
             /\ Includes(issue.problem, "not keyboard-focusable")
     THEN KeyboardAddTabindex(fsys, issue, content)
     ELSE Fail(fsys, "This keyboard issue requires manual review.")

\* ---------------------------------------------------- apply-images-fix.js
fixImgAlt(fsys, issue, content, isDecorative) ==
  LET lines == content
      line == lines[issue.line]
      imgMatch == IndexOf(line, {ImgOpen})
      tagStart == imgMatch - 1                        \* 0-based
      gt == IndexFrom(line, HasGt, imgMatch)
      tagEnd == gt - 1                                \* 0-based, -1 when absent
      tag == Substring(line, tagStart, tagEnd + 1)
      looksDecorative == Test(tag, DecorativeSrc)
      altValue == IF isDecorative \/ looksDecorative THEN AltEmpty ELSE AltTodo
  IN IF imgMatch = 0 THEN Fail(fsys, "Could not find <img> on target line.")
     ELSE IF Test(tag, AltAttr) THEN Fail(fsys, "Image already has an alt attribute.")
     ELSE WriteWithBackup(fsys, issue.file, content,
            [lines EXCEPT ![issue.line] = InsertAfter(line, imgMatch, <<altValue>>)],
            IF altValue = AltEmpty THEN "Added alt=\"\" (decorative) to <img>"
            ELSE "Added alt=\"TODO: describe image\" to <img>")

fixNextImageAlt(fsys, issue, content) ==
  LET lines == content
      line == lines[issue.line]
      imgMatch == IndexOf(line, {ImageOpen})
  IN IF imgMatch = 0 THEN Fail(fsys, "Could not find <Image> on target line.")
     ELSE IF Test(line, AltAttr)
     THEN Fail(fsys, "Image component already has an alt attribute.")
     ELSE WriteWithBackup(fsys, issue.file, content,
            [lines EXCEPT ![issue.line] = InsertAfter(line, imgMatch, <<AltTodo>>)],
            "Added alt=\"TODO: describe image\" to <Image>")

ImagesApplyFix(fsys, issue) ==
  LET content == fsys[issue.file]
  IN IF content = <<>> THEN Fail(fsys, "File not found")
     ELSE IF issue.line < 1 \/ issue.line > Len(content)
     THEN Fail(fsys, "Could not locate the issue line.")
     ELSE IF Includes(issue.problem, "decorative") /\ Includes(issue.problem, "missing alt")
     THEN fixImgAlt(fsys, issue, content, TRUE)
     ELSE IF Includes(issue.problem, "<img>") /\ Includes(issue.problem, "missing alt")
     THEN fixImgAlt(fsys, issue, content, FALSE)
     ELSE IF Includes(issue.problem, "Image component missing alt")
     THEN fixNextImageAlt(fsys, issue, content)
     ELSE Fail(fsys, "This image issue requires manual review.")

\* ------------------------------------------------- apply-semantics-fix.js
AOpen == "<a "
AClose == "</a>"
HrefAbout == "href=\"/about\""
ButtonOpen == "<button type=\"button\" "
ButtonClose == "</button>"
InputOpen == "<input "
OnClick == "onClick={go}"
Text == "text"

\* /<(a|button|input|select|textarea)\s/i
InteractiveOpen == {AOpen, ButtonOpen, InputOpen}
\* /\bhref\s*=/  and  /href=["']([^"']+)["']/i
HrefExt == "href=\"https://example.com\""
\* (the converters that copy the href value are run on "/about" links only)
HrefAttr == {HrefAbout, HrefExt}

OpenOf(tag) == IF tag = "div" THEN DivOpen ELSE SpanOpen
CloseOf(tag) == IF tag = "div" THEN DivClose ELSE SpanClose

RECURSIVE LineFrom(_, _, _)
\* first line index >= from whose line holds a token of S, 0 when none
LineFrom(lines, S, from) ==
  IF from > Len(lines) THEN 0
  ELSE IF Test(lines[from], S) THEN from
  ELSE LineFrom(lines, S, from + 1)

\* a closingFixed flag that is set whether or not a closing tag was found
closingFixedAlways(sameLine, below) == TRUE
\* closingFixed: set on the same line or by the loop over the lines below
closingFixed(sameLine, below) == sameLine \/ below # 0

fixDivToButton(fsys, issue, content) ==
  LET lines == content
      ln == issue.line
  IN IF ln < 1 \/ ln > Len(lines)
     THEN Fail(fsys, "Could not locate the issue line.")
     ELSE
       LET line == lines[ln]
           tagMatch == IndexOf(line, DivSpanOpen)
       IN IF tagMatch = 0 THEN Fail(fsys, "Could not find div/span on target line.")
          ELSE
            LET origTag == IF line[tagMatch] = DivOpen THEN "div" ELSE "span"
                fullTag == SubSeq(line, tagMatch, Len(line))
                opened == ReplaceFirst(line, {OpenOf(origTag)}, ButtonOpen)
                sameLine == Test(opened, {CloseOf(origTag)})
                newLine == IF sameLine
                           THEN ReplaceFirst(opened, {CloseOf(origTag)}, ButtonClose)
                           ELSE opened
                lines1 == [lines EXCEPT ![ln] = newLine]
                below == LineFrom(lines1, {CloseOf(origTag)}, ln + 1)
                lines2 == IF sameLine \/ below = 0 THEN lines1
                          ELSE [lines1 EXCEPT ![below] =
                                 ReplaceFirst(lines1[below], {CloseOf(origTag)}, ButtonClose)]
            IN IF Test(fullTag, InteractiveOpen)
               THEN Fail(fsys, "Nested interactive elements detected")
               ELSE IF Test(fullTag, HrefAttr)
               THEN Fail(fsys, "Element has href")
               ELSE IF ~closingFixed(sameLine, below)
               THEN Fail(fsys, "Could not find closing tag.")
               ELSE WriteWithBackup(fsys, issue.file, content, lines2,
                      "Replaced <div onClick> with <button type=\"button\">")

SemanticsAddTabindex(fsys, issue, content) ==
  LET lines == content
      ln == issue.line
  IN IF ln < 1 \/ ln > Len(lines)
     THEN Fail(fsys, "Could not locate the issue line.")
     ELSE IF Test(lines[ln], TabindexAttr)
     THEN Fail(fsys, "Element already has tabindex.")
     ELSE IF ~Test(lines[ln], DivSpanOpen)
     THEN Fail(fsys, "Could not find div/span on target line.")
     ELSE WriteWithBackup(fsys, issue.file, content,
            [lines EXCEPT ![ln] =
               InsertAfter(lines[ln], IndexOf(lines[ln], DivSpanOpen), <<TabZero>>)],
            "Added tabindex=\"0\"")

SemanticsApplyFix(fsys, issue) ==
  LET content == fsys[issue.file]
  IN IF content = <<>> THEN Fail(fsys, "File not found")
     ELSE IF Includes(issue.problem, "onClick handler used as interactive control")
     THEN fixDivToButton(fsys, issue, content)
     ELSE IF Includes(issue.problem, "missing tabindex")
     THEN SemanticsAddTabindex(fsys, issue, content)
     ELSE Fail(fsys, "This semantics issue requires manual review.")

\* ----------------------------------------------------------- import lines
ImportReact == "import React from 'react';"
ImportNextImage == "import Image from 'next/image';"
ImportNextLink == "import Link from 'next/link';"
ImportRouterDom == "import { Link } from 'react-router-dom';"

\* /import\s+.*/ at the start of a line
ImportStmt == {ImportReact, ImportNextImage, ImportNextLink, ImportRouterDom}

IsImportLine(line) == Len(line) > 0 /\ line[1] \in ImportStmt

RECURSIVE ImportRun(_, _)
\* content.match(/^(import\s+.*\n)*/m): the match starts at offset 0 and
\* spans the leading import lines that end in a line break (every line but
\* the last does); the result is the number of lines it spans
ImportRun(lines, k) ==
  IF k + 1 < Len(lines) /\ IsImportLine(lines[k + 1])
  THEN ImportRun(lines, k + 1)
  ELSE k

\* newContent.slice(0, insertPos) + stmt + '\n' + newContent.slice(insertPos)
InsertImport(lines, stmt) ==
  LET k == ImportRun(lines, 0)
  IN SubSeq(lines, 1, k) \o << <<stmt>> >> \o SubSeq(lines, k + 1, Len(lines))

\* content.includes("from '<module>'")
HasToken(lines, S) == \E i \in 1..Len(lines) : Test(lines[i], S)

\* line.replace(/re/g, tok)
ReplaceAll(line, S, tok) ==
  [i \in 1..Len(line) |-> IF line[i] \in S THEN tok ELSE line[i]]

\* --------------------------------------------- apply-image-fix.js (SEO)
AltSeoTodo == "alt=\"TODO: Add descriptive alt text\" "

\* newLine.replace(/>$/, ' />') on the last token of the line
SelfCloseEnd(line) ==
  IF Len(line) = 0 THEN line
  ELSE LET t == line[Len(line)]
       IN CASE t = Gt -> [line EXCEPT ![Len(line)] = SelfClose]
            [] t = DivClose -> [line EXCEPT ![Len(line)] = "</div />"]
            [] t = AClose -> [line EXCEPT ![Len(line)] = "</a />"]
            [] OTHER -> line

applyImageFix(fsys, issue) ==
  LET content == fsys[issue.file]
      lines == content
      ln == issue.line
  IN IF content = <<>> THEN Fail(fsys, "File not found")
     ELSE IF Includes(issue.problem, "missing alt attribute")
             \/ Includes(issue.problem, "missing alt")
     THEN IF ln >= 1 /\ ln <= Len(lines) /\ Test(lines[ln], {ImgOpen})
          THEN WriteWithBackup(fsys, issue.file, content,
                 [lines EXCEPT ![ln] =
                    InsertAfter(lines[ln], IndexOf(lines[ln], {ImgOpen}), <<AltSeoTodo>>)],
                 "Added placeholder alt attribute")
          ELSE IF ln >= 1 /\ ln <= Len(lines) /\ Test(lines[ln], {ImageOpen})
          THEN WriteWithBackup(fsys, issue.file, content,
                 [lines EXCEPT ![ln] =
                    InsertAfter(lines[ln], IndexOf(lines[ln], {ImageOpen}), <<AltSeoTodo>>)],
                 "Added placeholder alt prop to Image component")
          ELSE Fail(fsys, "Could not locate image tag at specified line")
     ELSE IF Includes(issue.problem, "native <img>") /\ Includes(issue.problem, "next/image")
     THEN LET hasImport == HasToken(content, {ImportNextImage})
              newLines == IF hasImport THEN lines ELSE InsertImport(lines, ImportNextImage)
          IN IF ln >= 1 /\ ln <= Len(newLines) /\ Test(newLines[ln], {ImgOpen})
             THEN LET conv == ReplaceFirst(newLines[ln], {ImgOpen}, ImageOpen)
                      newLine == IF Test(conv, {SelfClose}) THEN conv
                                 ELSE SelfCloseEnd(conv)
                  IN WriteWithBackup(fsys, issue.file, content,
                       [newLines EXCEPT ![ln] = newLine],
                       "Converted <img> to <Image>")
             ELSE Fail(fsys, "Could not locate <img> tag to convert")
     ELSE Fail(fsys, "Image fix pattern not recognized")

\* ---------------------------------------------------- apply-link-fix.js
LinkOpen == "<Link "
LinkClose == "</Link>"
ToAbout == "to=\"/about\""
RouterLinkAbout == "routerLink=\"/about\""

\* line.match(/<a\s[^>]*href=["']([^"']+)["']/i)
HrefInATag(line) ==
  \E i \in 1..Len(line) :
    /\ line[i] = AOpen
    /\ \E j \in (i + 1)..Len(line) :
         /\ line[j] \in HrefAttr
         /\ \A k \in (i + 1)..(j - 1) : line[k] \notin HasGt

convertToNextLink(fsys, issue, content) ==
  LET lines == content
      line == lines[issue.line]
      newLine == ReplaceAll(ReplaceFirst(line, {AOpen}, LinkOpen), {AClose}, LinkClose)
      replaced == [lines EXCEPT ![issue.line] = newLine]
      newContent == IF HasToken(content, {ImportNextLink}) THEN replaced
                    ELSE InsertImport(replaced, ImportNextLink)
  IN IF ~HrefInATag(line) THEN Fail(fsys, "Could not extract href from <a> tag")
     ELSE WriteWithBackup(fsys, issue.file, content, newContent,
            "Converted <a> to <Link> and added next/link import.")

convertToRouterLink(fsys, issue, content) ==
  LET lines == content
      line == lines[issue.line]
  IN IF ~Test(line, HrefAttr) THEN Fail(fsys, "Could not extract href from <a> tag")
     ELSE WriteWithBackup(fsys, issue.file, content,
            [lines EXCEPT ![issue.line] = ReplaceFirst(line, HrefAttr, RouterLinkAbout)],
            "Converted href to routerLink")

convertToReactRouterLink(fsys, issue, content) ==
  LET lines == content
      line == lines[issue.line]
      newLine == ReplaceAll(
                   ReplaceFirst(ReplaceFirst(line, {AOpen}, LinkOpen), HrefAttr, ToAbout),
                   {AClose}, LinkClose)
      replaced == [lines EXCEPT ![issue.line] = newLine]
      newContent == IF HasToken(content, {ImportRouterDom}) THEN replaced
                    ELSE InsertImport(replaced, ImportRouterDom)
  IN IF ~HrefInATag(line) THEN Fail(fsys, "Could not extract href from <a> tag")
     ELSE WriteWithBackup(fsys, issue.file, content, newContent,
            "Converted <a> to React Router <Link>")

applyLinkFix(fsys, issue) ==
  LET content == fsys[issue.file]
  IN IF content = <<>> THEN Fail(fsys, "File not found")
     ELSE IF Includes(issue.problem, "instead of next/link")
             \/ Includes(issue.problem, "instead of routerLink")
             \/ Includes(issue.problem, "instead of React Router")
     THEN IF issue.line < 1 \/ issue.line > Len(content)
          THEN Fail(fsys, "Target line out of range")
          ELSE IF issue.framework = "nextjs" \/ Includes(issue.problem, "next/link")
          THEN convertToNextLink(fsys, issue, content)
          ELSE IF issue.framework = "angular" \/ Includes(issue.problem, "routerLink")
          THEN convertToRouterLink(fsys, issue, content)
          ELSE IF issue.framework = "react" \/ Includes(issue.problem, "React Router")
          THEN convertToReactRouterLink(fsys, issue, content)
          ELSE Fail(fsys, "Link fix pattern not recognized")
     ELSE Fail(fsys, "Link fix pattern not recognized")

\* ------------------------------------------------- apply-heading-fix.js
H1Open == "<h1>"
H1Close == "</h1>"
H2Open == "<h2>"
H2Close == "</h2>"
H3Open == "<h3>"
H3Close == "</h3>"

\* number of lines among the first k that match /<h1[\s>]/i
H1LinesUpTo(lines, k) == Cardinality({i \in 1..k : Test(lines[i], {H1Open})})

applyHeadingFix(fsys, issue) ==
  LET content == fsys[issue.file]
      lines == content
      ln == issue.line
  IN IF content = <<>> THEN Fail(fsys, "File not found")
     ELSE IF Includes(issue.problem, "Multiple H1")
     THEN LET newLines ==
                [i \in 1..Len(lines) |->
                   IF Test(lines[i], {H1Open}) /\ H1LinesUpTo(lines, i) > 1
                   THEN ReplaceAll(ReplaceAll(lines[i], {H1Open}, H2Open),
                                   {H1Close}, H2Close)
                   ELSE lines[i]]
              modified == H1LinesUpTo(lines, Len(lines)) > 1
          IN IF modified
             THEN WriteWithBackup(fsys, issue.file, content, newLines,
                    "Converted extra H1 tag(s) to H2.")
             ELSE Fail(fsys, "Could not locate extra H1 tags to fix")
     ELSE IF Includes(issue.problem, "Skipped heading level")
     THEN \* the problem text reads H1, H3 (expected H2): oldTag h3, newTag h2
          IF ln >= 1 /\ ln <= Len(lines) /\ Test(lines[ln], {H3Open})
          THEN WriteWithBackup(fsys, issue.file, content,
                 [lines EXCEPT ![ln] =
                    ReplaceAll(ReplaceAll(lines[ln], {H3Open}, H2Open), {H3Close}, H2Close)],
                 "Changed <h3> to <h2>")
          ELSE Fail(fsys, "Could not locate the heading tag to fix")
     ELSE Fail(fsys, "Heading fix pattern not recognized")

\* ---------------------------------------------------- apply-gtm-fix.js
HeadOpen == "<head>"
BodyOpen == "<body>"
GtmJsUrl == "https://www.googletagmanager.com/gtm.js?id="
NsUrl == "https://www.googletagmanager.com/ns.html?id="
GtmPlaceholder == "GTM-XXXXXXX"
GtmLiteral == "GTM-ABC123"
\* GTM-[A-Z0-9]+
LiteralIds == {GtmPlaceholder, GtmLiteral}
\* \$\{([^}]+)\}
EnvRefs == {"${process.env.NEXT_PUBLIC_GTM_ID}"}

IndexHtml == <<"index.html">>
PageJsx == <<"page.jsx">>
EnvExample == <<".env.example">>
PackageJson == <<"package.json">>
envFiles == << <<".env">>, <<".env.local">>, <<".env.production">>, EnvExample >>

\* path.extname(issue.file)
Ext(p) == CASE p = IndexHtml -> ".html" [] p = PageJsx -> ".jsx" [] OTHER -> ""
\* issue.file.includes('layout.'), issue.file.includes('_document.'): neither
\* holds of index.html or page.jsx, the source files of this model, so that
\* installNextjsAppRouter and installNextjsPagesRouter are never entered
IsLayoutFile(p) == FALSE
IsDocumentFile(p) == FALSE

\* content.slice(0, insertPos) + block + content.slice(insertPos), the
\* insertion point being right after token pos of line k and block a text
\* of several lines
InsertBlock(lines, k, pos, block) ==
  LET n == Len(block)
      line == lines[k]
      before == SubSeq(line, 1, pos)
      after == SubSeq(line, pos + 1, Len(line))
  IN SubSeq(lines, 1, k - 1)
     \o (IF n = 1 THEN << before \o block[1] \o after >>
         ELSE << before \o block[1] >> \o SubSeq(block, 2, n - 1) \o << block[n] \o after >>)
     \o SubSeq(lines, k + 1, Len(lines))

\* the gtmScript text of installHtml / addScriptTag (8 lines of text)
HtmlScriptBlock(idv) ==
  << <<>>,
     <<"<!-- Google Tag Manager -->">>,
     <<"<script>(function(w,d,s,l,i){w[l]=w[l]||[];w[l].push({'gtm.start':">>,
     <<"new Date().getTime(),event:'gtm.js'});var f=d.getElementsByTagName(s)[0],">>,
     <<"j=d.createElement(s),dl=l!='dataLayer'?'&l='+l:'';j.async=true;j.src=">>,
     <<"'", GtmJsUrl, "'+i+dl;f.parentNode.insertBefore(j,f);">>,
     <<"})(window,document,'script','dataLayer','", idv, "');</script>">>,
     <<"<!-- End Google Tag Manager -->">> >>

\* the gtmNoscript text of installHtml / addNoscriptFallback (5 lines of text)
HtmlNoscriptBlock(idv) ==
  << <<>>,
     <<"<!-- Google Tag Manager (noscript) -->">>,
     <<"<noscript><iframe src=\"", NsUrl, idv, "\"">>,
     <<"height=\"0\" width=\"0\" style=\"display:none;visibility:hidden\"></iframe></noscript>">>,
     <<"<!-- End Google Tag Manager (noscript) -->">> >>

\* the noscript text of addNoscriptFallback for JSX/TSX files (9 lines)
JsxNoscriptBlock(idv) ==
  << <<>>, <<"<noscript>">>, <<"<iframe">>, <<"src={", NsUrl, idv, "}">>,
     <<"height=\"0\"">>, <<"width=\"0\"">>,
     <<"style={{ display: 'none', visibility: 'hidden' }}">>, <<SelfClose>>,
     <<"</noscript>">> >>

\* the id that follows url in the content: ${...} first, then GTM-..., else
\* the placeholder
IdAfter(lines, url) ==
  LET hits(S) == UNION {{lines[i][j + 1] : j \in {k \in 1..(Len(lines[i]) - 1) :
                             lines[i][k] = url /\ lines[i][k + 1] \in S}} :
                        i \in 1..Len(lines)}
  IN IF hits(EnvRefs) # {} THEN CHOOSE v \in hits(EnvRefs) : TRUE
     ELSE IF hits(LiteralIds) # {} THEN CHOOSE v \in hits(LiteralIds) : TRUE
     ELSE GtmPlaceholder

\* readFileSafe(envPath) is a non-empty string
NonEmptyFile(fsys, p) == fsys[p] # <<>> /\ fsys[p] # << <<>> >>

\* package.json is one line of dependency tokens
Deps(fsys) == IF fsys[PackageJson] = <<>> THEN {}
              ELSE {fsys[PackageJson][1][j] : j \in 1..Len(fsys[PackageJson][1])}

\* detectGtmEnvVar: "throws" when an env file has content, since the loop over
\* ENV_VAR_NAMES refers to a name the script never defines
detectGtmEnvVar(fsys) ==
  IF \E i \in 1..Len(envFiles) : NonEmptyFile(fsys, envFiles[i]) THEN "throws"
  ELSE IF "next" \in Deps(fsys) THEN "process.env.NEXT_PUBLIC_GTM_ID"
  ELSE IF "vite" \in Deps(fsys) THEN "import.meta.env.VITE_GTM_ID"
  ELSE IF "react-scripts" \in Deps(fsys) THEN "process.env.REACT_APP_GTM_ID"
  ELSE IF "gatsby" \in Deps(fsys) THEN "process.env.GATSBY_GTM_ID"
  ELSE GtmPlaceholder

ProcessEnvIds == {"process.env.NEXT_PUBLIC_GTM_ID", "process.env.REACT_APP_GTM_ID",
                  "process.env.GATSBY_GTM_ID"}
ImportMetaIds == {"import.meta.env.VITE_GTM_ID"}

VarLine(gtmId) ==
  CASE gtmId = "process.env.NEXT_PUBLIC_GTM_ID" -> "NEXT_PUBLIC_GTM_ID=GTM-XXXXXXX"
    [] gtmId = "import.meta.env.VITE_GTM_ID" -> "VITE_GTM_ID=GTM-XXXXXXX"
    [] gtmId = "process.env.REACT_APP_GTM_ID" -> "REACT_APP_GTM_ID=GTM-XXXXXXX"
    [] OTHER -> "GATSBY_GTM_ID=GTM-XXXXXXX"

\* ensureEnvExample: appends the variable to .env.example, creating the file
\* when it is absent; no backup is taken
ensureEnvExample(fsys, gtmId) ==
  LET old == IF fsys[EnvExample] = <<>> THEN << <<>> >> ELSE fsys[EnvExample]
      lastLine == old[Len(old)]
  IN IF gtmId \notin ProcessEnvIds \cup ImportMetaIds THEN fsys
     ELSE IF HasToken(old, {VarLine(gtmId)}) THEN fsys
     ELSE [fsys EXCEPT ![EnvExample] =
             SubSeq(old, 1, Len(old) - 1)
             \o << lastLine, <<"# Google Tag Manager Container ID">>,
                   <<"# TODO: Replace with your actual GTM container ID">>,
                   <<VarLine(gtmId)>>, <<>> >>]

installHtml(fsys, issue, gtmId) ==
  LET content == fsys[issue.file]
      gtmIdValue == IF gtmId \in ProcessEnvIds THEN GtmPlaceholder ELSE gtmId
      hl == LineFrom(content, {HeadOpen}, 1)
      withScript == InsertBlock(content, hl, IndexOf(content[hl], {HeadOpen}),
                                HtmlScriptBlock(gtmIdValue))
      bl == LineFrom(withScript, {BodyOpen}, 1)
      withBoth == InsertBlock(withScript, bl, IndexOf(withScript[bl], {BodyOpen}),
                              HtmlNoscriptBlock(gtmIdValue))
  IN IF content = <<>> THEN Fail(fsys, "File not found")
     ELSE IF HasToken(content, {GtmJsUrl})
     THEN Fail(fsys, "GTM is already installed in this file.")
     ELSE IF hl = 0 THEN Fail(fsys, "No <head> tag found in HTML file.")
     ELSE IF bl = 0 THEN Fail(fsys, "No <body> tag found in HTML file.")
     ELSE LET w == WriteWithBackup(fsys, issue.file, content, withBoth, "Installed GTM")
          IN [w EXCEPT !.fs = ensureEnvExample(w.fs, gtmId)]

installGtm(fsys, issue) ==
  LET gtmId == detectGtmEnvVar(fsys)
  IN IF gtmId = "throws" THEN Fail(fsys, "ENV_VAR_NAMES is not defined")
     ELSE IF IsLayoutFile(issue.file) \/ IsDocumentFile(issue.file)
     THEN Fail(fsys, "Next.js layout or _document file")
     ELSE IF Ext(issue.file) = ".html" THEN installHtml(fsys, issue, gtmId)
     ELSE Fail(fsys, "Cannot determine how to install GTM")

addNoscriptFallback(fsys, issue) ==
  LET content == fsys[issue.file]
      idv == IdAfter(content, GtmJsUrl)
      bl == LineFrom(content, {BodyOpen}, 1)
      block == IF Ext(issue.file) = ".html" THEN HtmlNoscriptBlock(idv)
               ELSE JsxNoscriptBlock(idv)
  IN IF content = <<>> THEN Fail(fsys, "File not found")
     ELSE IF HasToken(content, {NsUrl})
     THEN Fail(fsys, "GTM noscript is already present in this file.")
     ELSE IF Ext(issue.file) \notin {".html", ".jsx"}
     THEN Fail(fsys, "Cannot add noscript to files of this type.")
     ELSE IF bl = 0 THEN Fail(fsys, "No <body> tag found.")
     ELSE WriteWithBackup(fsys, issue.file, content,
            InsertBlock(content, bl, IndexOf(content[bl], {BodyOpen}), block),
            "Added GTM noscript iframe after <body>")

addScriptTag(fsys, issue) ==
  LET content == fsys[issue.file]
      idv == IdAfter(content, NsUrl)
      hl == LineFrom(content, {HeadOpen}, 1)
  IN IF content = <<>> THEN Fail(fsys, "File not found")
     ELSE IF HasToken(content, {GtmJsUrl})
     THEN Fail(fsys, "GTM script is already present in this file.")
     ELSE IF Ext(issue.file) # ".html"
     THEN Fail(fsys, "Cannot add script tag to files of this type automatically.")
     ELSE IF hl = 0 THEN Fail(fsys, "No <head> tag found.")
     ELSE WriteWithBackup(fsys, issue.file, content,
            InsertBlock(content, hl, IndexOf(content[hl], {HeadOpen}), HtmlScriptBlock(idv)),
            "Added GTM script to <head>")

applyGtmFix(fsys, issue) ==
  IF Includes(issue.problem, "not installed") THEN installGtm(fsys, issue)
  ELSE IF Includes(issue.problem, "noscript fallback is missing")
  THEN addNoscriptFallback(fsys, issue)
  ELSE IF Includes(issue.problem, "main script tag is missing")
  THEN addScriptTag(fsys, issue)
  ELSE Fail(fsys, "Cannot auto-fix this GTM issue. Manual review required.")

\* ------------------------------------------------ apply-semantic-fix.js
HeaderOpen == "<header>"
HeaderClose == "</header>"
FooterOpen == "<footer>"
MainOpen == "<main>"
MainClose == "</main>"
BodyClose == "</body>"
NavOpen == "<nav>"
NavClose == "</nav>"

\* content.replace(tag, tag + '\n' + ins): a line break and ins placed
\* after the first token of S; no change when there is none
BreakAfter(lines, S, ins) ==
  IF ~HasToken(lines, S) THEN lines
  ELSE InsertBlock(lines, LineFrom(lines, S, 1),
                   IndexOf(lines[LineFrom(lines, S, 1)], S), << <<>>, <<ins>> >>)

\* content.replace(tag, ins + '\n' + tag): ins and a line break placed
\* before the first token of S; no change when there is none
BreakBefore(lines, S, ins) ==
  IF ~HasToken(lines, S) THEN lines
  ELSE InsertBlock(lines, LineFrom(lines, S, 1),
                   IndexOf(lines[LineFrom(lines, S, 1)], S) - 1, << <<ins>>, <<>> >>)

applySemanticFix(fsys, issue) ==
  IF fsys[issue.file] = <<>> THEN Fail(fsys, "File not found")
  ELSE IF Includes(issue.problem, "Missing <main>")
  THEN IF Ext(issue.file) = ".html"
       THEN IF HasToken(fsys[issue.file], {HeaderClose})
               /\ HasToken(fsys[issue.file], {FooterOpen})
            THEN WriteWithBackup(fsys, issue.file, fsys[issue.file],
                   BreakBefore(BreakAfter(fsys[issue.file], {HeaderClose}, MainOpen),
                               {FooterOpen}, MainClose),
                   "Added <main> wrapper around primary content area.")
            ELSE IF HasToken(fsys[issue.file], {BodyOpen})
            THEN WriteWithBackup(fsys, issue.file, fsys[issue.file],
                   BreakBefore(BreakAfter(fsys[issue.file], {BodyOpen}, MainOpen),
                               {BodyClose}, MainClose),
                   "Added <main> wrapper around primary content area.")
            ELSE Fail(fsys, "Could not identify where to insert <main> tag")
       ELSE Fail(fsys, "Automatic <main> insertion in JSX/TSX requires manual review for safety.")
  ELSE IF Includes(issue.problem, "Missing <header>")
  THEN IF Ext(issue.file) = ".html" /\ HasToken(fsys[issue.file], {NavOpen})
       THEN WriteWithBackup(fsys, issue.file, fsys[issue.file],
              BreakAfter(BreakBefore(fsys[issue.file], {NavOpen}, HeaderOpen),
                         {NavClose}, HeaderClose),
              "Wrapped <nav> element in a <header> tag.")
       ELSE Fail(fsys, "Could not safely add <header> tag.")
  ELSE IF Includes(issue.problem, "no <nav>")
  THEN Fail(fsys, "Navigation wrapping requires manual review to identify the correct element.")
  ELSE IF Includes(issue.problem, "Missing <footer>")
  THEN Fail(fsys, "Footer wrapping requires manual identification of footer content.")
  ELSE Fail(fsys, "Semantic fix pattern not recognized")

\* =================================================================== state
VARIABLES
  files,      \* the project directory: path -> content (<<>> when absent)
  last,       \* the latest Fix Handler run: script, issue, result, files before
              \* the run, files it is to leave, writes it has yet to do
  nruns,      \* number of Fix Handler runs so far
  scanResults,\* the scanners' findings handed to generate-report.js
  report,     \* seo-report.json: written flag, issues, summary
  md,         \* seo-report.md: its lines (<<>> until written)
  rpc,        \* generate-report.js: "scan" before it runs, "done" after it
              \* printed its success result, "failed" after {error} and exit 1
  scan,       \* scan-keyboard.js: the project tree and framework it is run
              \* on, its candidate lists, its issues and its exit status
  domain,     \* which plugin's apply-fix.js runs: "a11y" or "seo"
  reportFile, \* <domain>-report.json in the project root: present flag, issues
  filter,     \* process.argv[3]
  dryRun,     \* process.argv.includes('--dry-run')
  fpc,        \* apply-fix.js: "start", "loop", "done" (returned), "exit" (exit 1)
  targetIssues, \* the selected Findings
  idx,        \* position of the for loop in targetIssues
  fixed,      \* the three outcome lists; the SEO script names the third
  skipped,    \*   one recommendations and prints it under that key
  manualReview,
  dispatched, \* ids of the Findings a handler process was started for
  fixReport,  \* the fix report file: written flag and the three counts
  exitCode,   \* -1 while running
  failure,    \* the handler process that ended abnormally: index, how
  files0,     \* the project directory as the run found it
  output      \* what apply-fix.js printed: stream, success flag, message

hvars == <<files, last, nruns>>
rvars == <<scanResults, report, md, rpc, scan>>
fvars == <<domain, reportFile, filter, dryRun, fpc, targetIssues, idx, fixed, skipped,
           manualReview, dispatched, fixReport, exitCode, failure, files0, output>>
vars == <<files, last, nruns, scanResults, report, md, rpc, scan, domain, reportFile, filter,
          dryRun, fpc, targetIssues, idx, fixed, skipped, manualReview, dispatched,
          fixReport, exitCode, failure, files0, output>>

SourceFiles == {IndexHtml, PageJsx}
BasePaths == SourceFiles \cup {PackageJson} \cup {envFiles[i] : i \in 1..Len(envFiles)}
AllPaths == BasePaths \cup {Bak(p) : p \in BasePaths}

\* lines the initial source files are made of
Catalogue ==
  { <<ImgOpen, SrcIcon, Gt>>,
    <<ImgOpen>>,
    <<SrcPhoto, SelfClose>>,
    <<DivOpen, TabPos, OnClick, Gt, Text, DivClose>>,
    <<DivOpen, OnClick, Gt>>,
    <<Text, DivClose>>,
    <<AOpen, HrefAbout, Gt, Text, AClose>>,
    <<H1Open, Text, H1Close>>,
    <<H3Open, Text, H3Close>>,
    <<ImportReact>>,
    <<HeadOpen, BodyOpen>>,
    <<ImageOpen, SrcPhoto, SelfClose>> }

\* lines of pages with nested elements and with landmark elements
Nested ==
  { <<DivOpen, OnClick, Gt>>,
    <<DivOpen, OnClick, Gt, DivOpen, Gt, Text, DivClose, DivClose>>,
    <<InputOpen, SelfClose, DivClose>>,
    <<HeaderClose, NavOpen, NavClose, FooterOpen>>,
    <<AOpen, HrefAbout, Gt, Text, AClose, AOpen, HrefAbout, Gt, Text, AClose>>,
    <<DivOpen, Gt, DivOpen, OnClick, Gt, Text, DivClose, DivClose>> }

Contents ==
  UNION {[1..n -> Catalogue] : n \in 1..MaxLines}
  \cup UNION {[1..n -> Nested] : n \in 1..MaxLines}

NoFiles == [p \in AllPaths |-> <<>>]

\* contents of .env.example and package.json the GTM handler tells apart:
\* absent, empty, holding a variable; no dependency, next, vite
EnvSetups ==
  { <<e, k>> : e \in { <<>>, << <<>> >>, << <<"NEXT_PUBLIC_GTM_ID=GTM-XXXXXXX">> >> },
               k \in { << <<"next">> >>, << <<"vite">> >> } }
  \ { << << <<"NEXT_PUBLIC_GTM_ID=GTM-XXXXXXX">> >>, << <<"vite">> >> >> }

\* a project with one source file: index.html with any content, or, for the
\* pages the GTM handler can edit, page.jsx or index.html next to
\* environment files
Projects ==
  {[NoFiles EXCEPT ![IndexHtml] = c] : c \in Contents}
  \cup {[NoFiles EXCEPT ![PageJsx] = c] : c \in {d \in Contents : HasToken(d, {HeadOpen})}}
  \cup {[NoFiles EXCEPT ![IndexHtml] = c, ![EnvExample] = s[1], ![PackageJson] = s[2]] :
          c \in {d \in Contents : HasToken(d, {HeadOpen})}, s \in EnvSetups}

Lines == 1..(MaxLines + 1)
Frameworks == {"nextjs", "html"}

Finding(f, ln, prob, fw) ==
  [file |-> f, line |-> ln, problem |-> prob, framework |-> fw]

NoRun == [script |-> "none", issue |-> Finding(IndexHtml, 1, "", "html"),
          success |-> FALSE, msg |-> "", pre |-> NoFiles, goal |-> NoFiles, todo |-> <<>>]


\* ---------------------------------------------------- generate-report.js
CATEGORIES == <<"rendering", "title", "meta-description", "headings", "semantic-html",
                "url-structure", "images", "internal-links", "gtm">>

CATEGORY_LABELS(cat) ==
  CASE cat = "rendering" -> "Rendering"
    [] cat = "title" -> "Title"
    [] cat = "meta-description" -> "Meta Description"
    [] cat = "headings" -> "Headings"
    [] cat = "semantic-html" -> "Semantic HTML"
    [] cat = "url-structure" -> "URL Structure"
    [] cat = "images" -> "Images"
    [] cat = "internal-links" -> "Internal Links"
    [] cat = "gtm" -> "Google Tag Manager"

SEVERITY_ORDER == [critical |-> 0, high |-> 1, medium |-> 2, low |-> 3]

\* CATEGORIES.indexOf(cat): 0-based, -1 when cat is not declared
CategoryIndex(cat) ==
  IF \E i \in 1..Len(CATEGORIES) : CATEGORIES[i] = cat
  THEN (CHOOSE i \in 1..Len(CATEGORIES) : CATEGORIES[i] = cat) - 1
  ELSE -1

\* (SEVERITY_ORDER[severity] || 3): a rank of 0 is falsy and yields 3
SeverityKey(severity) ==
  LET v == SEVERITY_ORDER[severity]
  IN IF v = 0 THEN 3 ELSE v

\* the comparator handed to allIssues.sort
Compare(a, b) ==
  IF CategoryIndex(a.category) # CategoryIndex(b.category)
  THEN CategoryIndex(a.category) - CategoryIndex(b.category)
  ELSE SeverityKey(a.severity) - SeverityKey(b.severity)

\* Array.prototype.sort is stable: x goes before the first element that
\* compares greater than x
InsertSorted(sorted, x) ==
  LET later == {i \in 1..Len(sorted) : Compare(sorted[i], x) > 0}
      pos == IF later = {} THEN Len(sorted) + 1
             ELSE CHOOSE i \in later : \A j \in later : i <= j
  IN SubSeq(sorted, 1, pos - 1) \o <<x>> \o SubSeq(sorted, pos, Len(sorted))

RECURSIVE SortIssues(_)
SortIssues(issues) ==
  IF issues = <<>> THEN <<>>
  ELSE InsertSorted(SortIssues(SubSeq(issues, 1, Len(issues) - 1)), issues[Len(issues)])

RECURSIVE Digits(_)
\* String(n): the decimal digits of n
Digits(n) == IF n < 10 THEN <<n>> ELSE Append(Digits(n \div 10), n % 10)

RECURSIVE PadStart(_, _, _)
\* s.padStart(width, fill)
PadStart(s, width, fill) ==
  IF Len(s) >= width THEN s ELSE PadStart(<<fill>> \o s, width, fill)

\* `SEO-${String(n).padStart(3, '0')}`
FormatId(prefix, n) == [prefix |-> prefix, digits |-> PadStart(Digits(n), 3, 0)]

NoId == [prefix |-> "", digits |-> <<>>]
DefaultFramework == "html"

\* { id: `SEO-...`, ...issue }: the spread comes after id, so a record that
\* carries an id of its own keeps it
AssignId(issue, i) ==
  [issue EXCEPT !.id = IF issue.id # NoId THEN issue.id ELSE FormatId("SEO", i)]

Count(issues, P(_)) == Cardinality({i \in 1..Len(issues) : P(issues[i])})

Summary(issues) ==
  [totalIssues |-> Len(issues),
   bySeverity |-> [sev \in DOMAIN SEVERITY_ORDER |->
                     LET is(x) == x.severity = sev IN Count(issues, is)],
   byCategory |-> [i \in 1..Len(CATEGORIES) |->
                     LET is(x) == x.category = CATEGORIES[i] IN Count(issues, is)],
   autoFixable |-> LET is(x) == x.autoFixPossible IN Count(issues, is)]

BuildReport(input) ==
  LET sorted == SortIssues(input)
      issues == [i \in 1..Len(sorted) |-> AssignId(sorted[i], i)]
  IN [written |-> TRUE, issues |-> issues, summary |-> Summary(issues)]

\* a line of seo-report.md
MdText(t) == [kind |-> "text", a |-> t, n |-> 0, id |-> NoId]
MdRow(label, n) == [kind |-> "row", a |-> label, n |-> n, id |-> NoId]
MdSection(label) == [kind |-> "section", a |-> label, n |-> 0, id |-> NoId]
MdIssue(id, sev) == [kind |-> "issue", a |-> sev, n |-> 0, id |-> id]

Upper(sev) ==
  CASE sev = "critical" -> "CRITICAL" [] sev = "high" -> "HIGH"
    [] sev = "medium" -> "MEDIUM" [] sev = "low" -> "LOW"

IssueBlock(issue) ==
  << MdIssue(issue.id, Upper(issue.severity)), MdText(""),
     MdText("- **File:**"), MdText("- **Problem:**"), MdText("- **SEO Impact:**"),
     MdText("- **Recommended Fix:**"),
     MdText(IF issue.autoFixPossible THEN "- **Auto-fix Available:** Yes"
            ELSE "- **Auto-fix Available:** No"),
     MdText("") >>

RECURSIVE Flatten(_)
Flatten(ss) == IF ss = <<>> THEN <<>> ELSE ss[1] \o Flatten(Tail(ss))

\* a rendering that leaves out the categories without issues
CategorySectionNoEmpty(rep, cat) ==
  LET catIssues == SelectSeq(rep.issues, LAMBDA x : x.category = cat)
  IN IF catIssues = <<>> THEN <<>>
     ELSE << MdSection(CATEGORY_LABELS(cat)), MdText("") >>
          \o Flatten([i \in 1..Len(catIssues) |-> IssueBlock(catIssues[i])])

\* the detail section generateMarkdown writes for one category
CategorySection(rep, cat) ==
  LET catIssues == SelectSeq(rep.issues, LAMBDA x : x.category = cat)
  IN << MdSection(CATEGORY_LABELS(cat)), MdText("") >>
     \o (IF catIssues = <<>> THEN << MdText("No issues found."), MdText("") >>
         ELSE Flatten([i \in 1..Len(catIssues) |-> IssueBlock(catIssues[i])]))

generateMarkdown(rep) ==
  << MdText("# SEO Audit Report"), MdText(""), MdText("**Generated:**"),
     MdText("**Framework:**"), MdText("**Project:**"), MdText(""),
     MdText("## Summary"), MdText(""), MdText("| Metric | Count |"),
     MdText("|--------|-------|"),
     MdRow("Total Issues", rep.summary.totalIssues),
     MdRow("Critical", rep.summary.bySeverity["critical"]),
     MdRow("High", rep.summary.bySeverity["high"]),
     MdRow("Medium", rep.summary.bySeverity["medium"]),
     MdRow("Low", rep.summary.bySeverity["low"]),
     MdRow("Auto-fixable", rep.summary.autoFixable),
     MdText(""), MdText("### Issues by Category"), MdText(""),
     MdText("| Category | Issues |"), MdText("|----------|--------|") >>
  \o [i \in 1..Len(CATEGORIES) |->
        MdRow(CATEGORY_LABELS(CATEGORIES[i]), rep.summary.byCategory[i])]
  \o << MdText("") >>
  \o Flatten([i \in 1..Len(CATEGORIES) |-> CategorySection(rep, CATEGORIES[i])])
  \o << MdText("---"), MdText(""), MdText("*Generated by seo-plugin*") >>

NoReport == [written |-> FALSE, issues |-> <<>>, summary |-> Summary(<<>>)]

NoFixReport == [written |-> FALSE, fixed |-> 0, skipped |-> 0, manualReview |-> 0]
NoFailure == [at |-> 0, error |-> "", progress |-> "done"]
NoFilter == [prefix |-> "", digits |-> <<>>, word |-> ""]
NoOutput == [stream |-> "", success |-> FALSE, text |-> ""]

FixIdle ==
  /\ domain = "seo"
  /\ reportFile = [present |-> FALSE, issues |-> <<>>]
  /\ filter = NoFilter
  /\ dryRun = FALSE
  /\ fpc = "done"
  /\ targetIssues = <<>>
  /\ idx = 1
  /\ fixed = <<>>
  /\ skipped = <<>>
  /\ manualReview = <<>>
  /\ dispatched = <<>>
  /\ fixReport = NoFixReport
  /\ exitCode = 0
  /\ failure = NoFailure
  /\ files0 = NoFiles
  /\ output = NoOutput

\* the opening tag at position k of the line carries a click handler:
\* onClick stands between the tag name and the tag's '>'
CarriesOnClick(line, k) ==
  \E c \in (k + 1)..Len(line) :
    /\ line[c] = OnClick
    /\ \A g \in (k + 1)..(c - 1) : line[g] \notin HasGt

\* ------------------------------------------------------- scan-keyboard.js
SrcDir == <<"src">>
AppDir == <<"app">>
StylesDir == <<"styles">>
\* projectRoot
RootDir == <<>>
BaseCss == <<"base.css">>
SrcAboutHtml == <<"src", "about.html">>
SrcAppCss == <<"src", "app.css">>
StylesSiteCss == <<"styles", "site.css">>

\* the files of the project tree in the order fs.readdirSync and the
\* recursion of findFiles(projectRoot, ...) meet them
ScanOrder == <<BaseCss, IndexHtml, SrcAboutHtml, SrcAppCss, StylesSiteCss>>
ScanPaths == {ScanOrder[i] : i \in 1..Len(ScanOrder)}
\* /\.html?$/i and /\.(css|scss|less)$/ on the entry name
HtmlPaths == {IndexHtml, SrcAboutHtml}
CssPaths == {BaseCss, SrcAppCss, StylesSiteCss}

OutlineNoneAll == "* { outline: none; }"
FocusNoOutline == ":focus { outline: none; }"
BodyMargin == "body { margin: 0; }"

\* what a path of the tree is: no entry, an entry that cannot be read, a
\* file with its lines
ScanEntries(p) ==
  { [kind |-> "absent", content |-> <<>>], [kind |-> "unreadable", content |-> <<>>] }
  \cup { [kind |-> "file", content |-> c] :
           c \in IF p \in CssPaths
                 THEN { << <<BodyMargin>> >>, << <<BodyMargin>>, <<OutlineNoneAll>> >> }
                 ELSE { << <<DivOpen, Gt, Text, DivClose>> >>,
                        << <<DivOpen, TabPos, Gt, Text, DivClose>> >> } }

ScanTrees == {t \in [ScanPaths -> UNION {ScanEntries(p) : p \in ScanPaths}] :
                \A p \in ScanPaths : t[p] \in ScanEntries(p)}
ScanFrameworks == {"html", "angular"}

\* fullPath lies in dir or in a directory below it
Under(dir, p) == Len(p) > Len(dir) /\ SubSeq(p, 1, Len(dir)) = dir
\* fs.existsSync(dir); the project root exists
DirExists(tree, dir) ==
  dir = RootDir \/ \E p \in ScanPaths : Under(dir, p) /\ tree[p].kind # "absent"

\* findFiles(dir, pattern): the entries below dir whose name matches
findFiles(tree, dir, S) ==
  SelectSeq(ScanOrder, LAMBDA p : Under(dir, p) /\ tree[p].kind # "absent" /\ p \in S)

\* for (const dir of dirs) if (fs.existsSync(dir)) files.push(...findFiles(dir, pattern))
RECURSIVE FilesIn(_, _, _)
FilesIn(tree, dirs, S) ==
  IF dirs = <<>> THEN <<>>
  ELSE (IF DirExists(tree, Head(dirs)) THEN findFiles(tree, Head(dirs), S) ELSE <<>>)
       \o FilesIn(tree, Tail(dirs), S)

getSourceFiles(tree, fw) ==
  IF fw = "angular" THEN FilesIn(tree, <<SrcDir>>, HtmlPaths)
  ELSE findFiles(tree, RootDir, HtmlPaths)

getCssFiles(tree, fw) ==
  FilesIn(tree, IF fw = "angular" THEN <<SrcDir>> ELSE <<SrcDir, AppDir, StylesDir, RootDir>>,
          CssPaths)

\* a read that lets the exception of fs.readFileSync through
readFileUnsafe(e) ==
  [threw |-> e.kind # "file", content |-> IF e.kind = "file" THEN e.content ELSE <<>>]
\* readFileSafe: try { return fs.readFileSync(p, 'utf8') } catch { return null }
readFileSafe(e) ==
  [threw |-> FALSE, content |-> IF e.kind = "file" THEN e.content ELSE <<>>]

\* the positions <<line, token>> of a content in reading order
RECURSIVE Positions(_, _, _)
Positions(lines, i, k) ==
  IF i > Len(lines) THEN <<>>
  ELSE IF k > Len(lines[i]) THEN Positions(lines, i + 1, 1)
  ELSE << <<i, k>> >> \o Positions(lines, i, k + 1)

\* while ((match = pattern.exec(content)) !== null) issues.push({...}): one
\* issue per match, with the line of the match
IssuesFor(p, lines, Match(_, _), problem) ==
  LET ms == SelectSeq(Positions(lines, 1, 1), LAMBDA m : Match(lines[m[1]], m[2]))
  IN [j \in 1..Len(ms) |->
        [category |-> "keyboard", file |-> p, line |-> ms[j][1], problem |-> problem]]

IsPositiveTabindex(line, k) == line[k] = TabPos
IsClickDiv(line, k) == line[k] \in DivSpanOpen /\ CarriesOnClick(line, k)
IsFocusNoOutline(line, k) == line[k] = FocusNoOutline
IsOutlineNoneAll(line, k) == line[k] = OutlineNoneAll

SourceIssues(p, lines) ==
  IssuesFor(p, lines, IsPositiveTabindex, P_TABPOS)
  \o IssuesFor(p, lines, IsClickDiv, P_NOKEY)

CssIssues(p, lines) ==
  IssuesFor(p, lines, IsFocusNoOutline, "Focus outline removed without visible replacement")
  \o IssuesFor(p, lines, IsOutlineNoneAll, "Global focus outline removed (outline: none on *)")

\* one of the two for loops of scanKeyboard: every candidate is read and,
\* unless the read gave nothing, matched; an exception leaves the loop
RECURSIVE ScanFiles(_, _, _)
ScanFiles(tree, cands, css) ==
  IF cands = <<>> THEN [threw |-> FALSE, issues |-> <<>>]
  ELSE LET r == readFileSafe(tree[Head(cands)])
           rest == ScanFiles(tree, Tail(cands), css)
       IN IF r.threw \/ rest.threw THEN [threw |-> TRUE, issues |-> <<>>]
          ELSE [threw |-> FALSE,
                issues |-> (IF css THEN CssIssues(Head(cands), r.content)
                            ELSE SourceIssues(Head(cands), r.content)) \o rest.issues]

NoScan == [pc |-> "idle", fw |-> "html",
           tree |-> [p \in ScanPaths |-> [kind |-> "absent", content |-> <<>>]],
           sourceFiles |-> <<>>, cssFiles |-> <<>>, issues |-> <<>>, code |-> 0]

\* node scan-keyboard.js <project-root> <framework>: scanKeyboard and the
\* try/catch around it, which prints {issues} or prints {error} and exits
\* with status 1
ScanKeyboard ==
  /\ scan.pc = "idle"
  /\ \E src \in {ScanFiles(scan.tree, getSourceFiles(scan.tree, scan.fw), FALSE)},
        css \in {ScanFiles(scan.tree, getCssFiles(scan.tree, scan.fw), TRUE)} :
       scan' = [scan EXCEPT !.pc = "done",
                            !.sourceFiles = getSourceFiles(scan.tree, scan.fw),
                            !.cssFiles = getCssFiles(scan.tree, scan.fw),
                            !.issues = IF src.threw \/ css.threw THEN <<>>
                                       ELSE src.issues \o css.issues,
                            !.code = IF src.threw \/ css.threw THEN 1 ELSE 0]
  /\ UNCHANGED <<scanResults, report, md, rpc, hvars, fvars>>

ReportIdle ==
  /\ scanResults = <<>>
  /\ report = NoReport
  /\ md = <<>>
  /\ rpc = "scan"
  /\ scan = NoScan

ScanCategories == {"rendering", "title", "gtm"}
Severities == {"critical", "high", "medium", "low"}

\* a finding record as a scanner emits it; a record taken from an earlier
\* report carries that report's id
ScanRecords ==
  [category : ScanCategories, severity : Severities,
   id : {NoId, FormatId("SEO", 1)}, autoFixPossible : BOOLEAN,
   framework : {""}]

\* one more finding reaches the scan results file
EmitFinding ==
  /\ rpc = "scan"
  /\ Len(scanResults) < MaxFindings
  /\ \E f \in ScanRecords : scanResults' = Append(scanResults, f)
  /\ UNCHANGED <<report, md, rpc, scan, hvars, fvars>>

\* node generate-report.js <project-root> <scan-results-file>
\* which of the two fs.writeFileSync calls of generateReport throws
WriteFailures == {"none", "json", "md"}

\* a generator that catches the exception of a write and goes on
ReportStatusSwallowed(wr) == "done"
\* the exception leaves generateReport before the success result is
\* printed; main prints {error} and exits with status 1
ReportStatus(wr) == IF wr = "none" THEN "done" ELSE "failed"

generateReport ==
  /\ rpc = "scan"
  /\ \E wr \in WriteFailures :
       LET allIssues == [i \in 1..Len(scanResults) |->
                           [scanResults[i] EXCEPT !.framework =
                              IF @ # "" THEN @ ELSE DefaultFramework]]
           rep == BuildReport(allIssues)
       IN /\ report' = IF wr = "json" THEN report ELSE rep
          /\ md' = IF wr = "none" THEN generateMarkdown(rep) ELSE md
          /\ rpc' = ReportStatus(wr)
  /\ UNCHANGED <<scanResults, scan, hvars, fvars>>

ReportInit ==
  /\ files = NoFiles
  /\ last = NoRun
  /\ nruns = 0
  /\ ReportIdle
  /\ FixIdle

ReportNext ==
  \/ EmitFinding
  \/ generateReport

SpecReport == ReportInit /\ [][ReportNext]_vars

\* node <script> '<issue-json>' <project-root>: one run of a handler script.
\* A project sees one Finding, whose handler runs up to MaxRuns times in
\* succession (runs of different Findings against one project are the Fix
\* Orchestrator's, below).
Run(script, issue, r) ==
  /\ nruns < MaxRuns
  /\ nruns = 0 \/ (last.script = script /\ last.issue = issue)
  /\ files' = r.fs
  /\ last' = [script |-> script, issue |-> issue, success |-> r.success,
              msg |-> r.msg, pre |-> files, goal |-> r.fs, todo |-> <<>>]
  /\ nruns' = nruns + 1
  /\ UNCHANGED <<rvars, fvars>>

KeyboardFix ==
  \E f \in {IndexHtml}, ln \in Lines, prob \in {P_TABPOS, P_NOFOCUS, P_NOKEY} :
    LET issue == Finding(f, ln, prob, "html")
    IN Run("apply-keyboard-fix.js", issue, KeyboardApplyFix(files, issue))

ImagesFix ==
  \E f \in {IndexHtml}, ln \in Lines, prob \in {P_DECOR, P_IMGALT, P_NEXTALT, P_ROLEIMG} :
    LET issue == Finding(f, ln, prob, "html")
    IN Run("apply-images-fix.js", issue, ImagesApplyFix(files, issue))

SemanticsFix ==
  \E f \in {IndexHtml}, ln \in Lines, prob \in {P_ONCLICK, P_ROLETAB, P_NOKEY} :
    LET issue == Finding(f, ln, prob, "html")
    IN Run("apply-semantics-fix.js", issue, SemanticsApplyFix(files, issue))

SeoImageFix ==
  \E f \in {IndexHtml}, ln \in Lines, prob \in {P_IMGALT, P_NEXTALT, P_NATIVEIMG} :
    LET issue == Finding(f, ln, prob, "nextjs")
    IN Run("apply-image-fix.js", issue, applyImageFix(files, issue))

LinkFix ==
  \E f \in {IndexHtml}, ln \in Lines, fw \in Frameworks,
     prob \in {P_NEXTLINK, P_ROUTERLINK, P_REACTLINK, P_EMPTYLINK} :
    LET issue == Finding(f, ln, prob, fw)
    IN Run("apply-link-fix.js", issue, applyLinkFix(files, issue))

HeadingFix ==
  \E f \in {IndexHtml}, ln \in Lines, prob \in {P_MULTIH1, P_SKIPH, P_NOH1} :
    LET issue == Finding(f, ln, prob, "html")
    IN Run("apply-heading-fix.js", issue, applyHeadingFix(files, issue))

SeoSemanticFix ==
  \E f \in SourceFiles, prob \in {P_NOMAIN, P_NOHEADER, P_NONAV} :
    LET issue == Finding(f, 1, prob, "html")
    IN Run("apply-semantic-fix.js", issue, applySemanticFix(files, issue))

GtmFix ==
  \E f \in SourceFiles, prob \in {P_GTMNONE, P_GTMNOSCRIPT, P_GTMSCRIPT, P_GTMHARD} :
    LET issue == Finding(f, 1, prob, "html")
    IN Run("apply-gtm-fix.js", issue, applyGtmFix(files, issue))

HandlerInit ==
  /\ files \in Projects
  /\ last = NoRun
  /\ nruns = 0
  /\ ReportIdle
  /\ FixIdle

HandlerNext ==
  \/ KeyboardFix
  \/ ImagesFix
  \/ SemanticsFix
  \/ SeoImageFix
  \/ LinkFix
  \/ HeadingFix
  \/ SeoSemanticFix
  \/ GtmFix

SpecHandler == HandlerInit /\ [][HandlerNext]_vars

\* the accessibility semantics handler alone, run against every project
SemanticsNext == SemanticsFix

SpecSemantics == HandlerInit /\ [][SemanticsNext]_vars


\* ------------------------------ apply-patterns-fix.js, apply-forms-fix.js
RoleDialog == "role=\"dialog\""
AriaModal == "aria-modal=\"true\""
AriaLabelDialog == "aria-label=\"Dialog\""
AriaLabelTodo == "aria-label=\"TODO: label\""
PlaceholderEmail == "placeholder=\"Email\""
PlaceholderSearch == "placeholder=\"Search\""
AriaLabelEmail == "aria-label=\"Email\""
AriaLabelSearch == "aria-label=\"Search\""

\* /aria-label\s*=\s*["'][^"']+["']/
AriaLabelAttr == {AriaLabelDialog, AriaLabelTodo, AriaLabelEmail, AriaLabelSearch}
\* /placeholder\s*=\s*["']([^"']+)["']/
PlaceholderAttr == {PlaceholderEmail, PlaceholderSearch}
\* /<\w+\s/
AnyTagOpen == {DivOpen, SpanOpen, ImgOpen, AOpen, InputOpen, ButtonOpen}

\* the text between the quotes of an attribute
AttrValue(tok) ==
  CASE tok \in {PlaceholderEmail, AriaLabelEmail} -> "Email"
    [] tok \in {PlaceholderSearch, AriaLabelSearch} -> "Search"
    [] tok = AriaLabelDialog -> "Dialog"
    [] tok = AriaLabelTodo -> "TODO: label"
    [] tok = AltTodo -> "TODO: describe image"
    [] tok = AltSeoTodo -> "TODO: Add descriptive alt text"
    [] OTHER -> ""

\* aria-label="${label}"
AriaLabelOf(label) ==
  CASE label = "Email" -> AriaLabelEmail
    [] label = "Search" -> AriaLabelSearch
    [] OTHER -> AriaLabelTodo

\* the tokens of the tag that opens at position k: up to and with its '>'
TagAt(line, k) ==
  SubSeq(line, k, IF IndexFrom(line, HasGt, k) = 0 THEN k - 1 ELSE IndexFrom(line, HasGt, k))

addDialogRole(fsys, issue, content) ==
  LET lines == content
      ln == issue.line
  IN IF ln < 1 \/ ln > Len(lines) THEN Fail(fsys, "Could not locate the issue line.")
     ELSE IF Test(lines[ln], {RoleDialog})
     THEN Fail(fsys, "Element already has a role attribute.")
     ELSE IF ~Test(lines[ln], {DivOpen})
     THEN Fail(fsys, "Could not find container tag on target line.")
     ELSE WriteWithBackup(fsys, issue.file, content,
            [lines EXCEPT ![ln] =
               InsertAfter(lines[ln], IndexOf(lines[ln], {DivOpen}), <<RoleDialog, AriaModal>>)],
            "Added role=\"dialog\" aria-modal=\"true\" to modal")

addAriaModal(fsys, issue, content) ==
  LET lines == content
      ln == issue.line
  IN IF ln < 1 \/ ln > Len(lines) THEN Fail(fsys, "Could not locate the issue line.")
     ELSE IF Test(lines[ln], {AriaModal}) THEN Fail(fsys, "Element already has aria-modal.")
     ELSE IF ~Test(lines[ln], {RoleDialog})
     THEN Fail(fsys, "Could not find role=\"dialog\" on target line.")
     ELSE WriteWithBackup(fsys, issue.file, content,
            [lines EXCEPT ![ln] =
               InsertAfter(lines[ln], IndexOf(lines[ln], {RoleDialog}), <<AriaModal>>)],
            "Added aria-modal=\"true\" to dialog")

addDialogTitle(fsys, issue, content) ==
  LET lines == content
      ln == issue.line
  IN IF ln < 1 \/ ln > Len(lines) THEN Fail(fsys, "Could not locate the issue line.")
     ELSE IF Test(lines[ln], AriaLabelAttr)
     THEN Fail(fsys, "Element already has an accessible name.")
     ELSE IF Test(lines[ln], {RoleDialog})
     THEN WriteWithBackup(fsys, issue.file, content,
            [lines EXCEPT ![ln] =
               InsertAfter(lines[ln], IndexOf(lines[ln], {RoleDialog}), <<AriaLabelDialog>>)],
            "Added aria-label=\"Dialog\" to dialog")
     ELSE IF ~Test(lines[ln], AnyTagOpen)
     THEN Fail(fsys, "Could not find tag on target line.")
     ELSE WriteWithBackup(fsys, issue.file, content,
            [lines EXCEPT ![ln] =
               InsertAfter(lines[ln], IndexOf(lines[ln], AnyTagOpen), <<AriaLabelDialog>>)],
            "Added aria-label=\"Dialog\" to dialog")

PatternsApplyFix(fsys, issue) ==
  LET content == fsys[issue.file]
  IN IF content = <<>> THEN Fail(fsys, "File not found")
     ELSE IF Includes(issue.problem, "missing role=\"dialog\"")
     THEN addDialogRole(fsys, issue, content)
     ELSE IF Includes(issue.problem, "missing aria-modal")
     THEN addAriaModal(fsys, issue, content)
     ELSE IF Includes(issue.problem, "missing accessible title")
     THEN addDialogTitle(fsys, issue, content)
     ELSE Fail(fsys, "This pattern issue requires manual review.")

fixPlaceholderLabel(fsys, issue, content) ==
  LET lines == content
      line == lines[issue.line]
      k == IndexOf(line, {InputOpen})
      tag == TagAt(line, k)
      label == IF Test(tag, PlaceholderAttr)
               THEN AttrValue(tag[IndexOf(tag, PlaceholderAttr)]) ELSE "TODO: label"
  IN IF k = 0 THEN Fail(fsys, "Could not find form element on target line.")
     ELSE IF Test(tag, AriaLabelAttr) THEN Fail(fsys, "Element already has an aria-label.")
     ELSE WriteWithBackup(fsys, issue.file, content,
            [lines EXCEPT ![issue.line] = InsertAfter(line, k, <<AriaLabelOf(label)>>)],
            "Added aria-label to form element")

fixNoLabel(fsys, issue, content) ==
  LET lines == content
      line == lines[issue.line]
      k == IndexOf(line, {InputOpen})
      tag == TagAt(line, k)
  IN IF k = 0 THEN Fail(fsys, "Could not find form element on target line.")
     ELSE IF Test(tag, AriaLabelAttr) THEN Fail(fsys, "Element already has a label mechanism.")
     ELSE WriteWithBackup(fsys, issue.file, content,
            [lines EXCEPT ![issue.line] = InsertAfter(line, k, <<AriaLabelTodo>>)],
            "Added aria-label=\"TODO: label\" to form element")

FormsApplyFix(fsys, issue) ==
  LET content == fsys[issue.file]
  IN IF content = <<>> THEN Fail(fsys, "File not found")
     ELSE IF issue.line < 1 \/ issue.line > Len(content)
     THEN Fail(fsys, "Could not locate the issue line.")
     ELSE IF Includes(issue.problem, "placeholder as its only label")
     THEN fixPlaceholderLabel(fsys, issue, content)
     ELSE IF Includes(issue.problem, "no associated label")
     THEN fixNoLabel(fsys, issue, content)
     ELSE Fail(fsys, "This form issue requires manual review.")

PatternsFix ==
  \E ln \in Lines, prob \in {P_DLGROLE, P_DLGMODAL, P_DLGTITLE} :
    \E issue \in {Finding(IndexHtml, ln, prob, "html")} :
      Run("apply-patterns-fix.js", issue, PatternsApplyFix(files, issue))

FormsFix ==
  \E ln \in Lines, prob \in {P_PHLABEL, P_NOLABEL} :
    \E issue \in {Finding(IndexHtml, ln, prob, "html")} :
      Run("apply-forms-fix.js", issue, FormsApplyFix(files, issue))

\* lines with dialogs and form fields
LabelLines ==
  { <<DivOpen, RoleDialog, Gt, Text, DivClose>>,
    <<DivOpen, Gt, Text, DivClose>>,
    <<InputOpen, PlaceholderEmail, SelfClose>>,
    <<InputOpen, PlaceholderSearch, SelfClose>>,
    <<InputOpen, SelfClose>> }

LabelNext ==
  \/ PatternsFix
  \/ FormsFix
  \/ ImagesFix

LabelInit ==
  /\ files \in { [NoFiles EXCEPT ![IndexHtml] = c] :
                   c \in UNION {[1..n -> LabelLines \cup {<<ImgOpen, SrcPhoto, Gt>>}] : n \in 1..MaxLines} }
  /\ last = NoRun
  /\ nruns = 0
  /\ ReportIdle
  /\ FixIdle

SpecLabel == LabelInit /\ [][LabelNext]_vars

\* ------------------------------------------- a handler's writes, one by one
\* The handler process of SpecHandler with its writeFileSync calls as
\* separate steps; the process may be killed between two of them (the
\* orchestrator starts it with a timeout).

\* lines of the pages the handlers are run against here
WriteLines ==
  { <<DivOpen, TabPos, OnClick, Gt, Text, DivClose>>,
    <<AOpen, HrefAbout, Gt, Text, AClose>>,
    <<ImgOpen, SrcIcon, Gt>>,
    <<H1Open, Text, H1Close>>,
    <<HeadOpen, BodyOpen>> }

\* index.html next to a package.json with the next dependency
WriteProjects ==
  { [NoFiles EXCEPT ![IndexHtml] = c, ![PackageJson] = << <<"next">> >>] :
      c \in UNION {[1..n -> WriteLines] : n \in 1..MaxLines} }

Scripts ==
  {"apply-keyboard-fix.js", "apply-images-fix.js", "apply-semantics-fix.js",
   "apply-image-fix.js", "apply-link-fix.js", "apply-heading-fix.js",
   "apply-semantic-fix.js", "apply-gtm-fix.js"}

\* the Findings each handler is started for
ProblemsOf(script) ==
  CASE script = "apply-keyboard-fix.js" -> {P_TABPOS, P_NOFOCUS}
    [] script = "apply-images-fix.js" -> {P_DECOR, P_IMGALT}
    [] script = "apply-semantics-fix.js" -> {P_ONCLICK, P_ROLETAB}
    [] script = "apply-image-fix.js" -> {P_IMGALT, P_NATIVEIMG}
    [] script = "apply-link-fix.js" -> {P_NEXTLINK, P_ROUTERLINK}
    [] script = "apply-heading-fix.js" -> {P_MULTIH1, P_SKIPH}
    [] script = "apply-semantic-fix.js" -> {P_NOMAIN, P_NOHEADER}
    [] script = "apply-gtm-fix.js" -> {P_GTMNONE, P_GTMNOSCRIPT}

\* what the handler script computes from the project and the Finding
Handler(script, fsys, issue) ==
  CASE script = "apply-semantics-fix.js" -> SemanticsApplyFix(fsys, issue)
    [] script = "apply-images-fix.js" -> ImagesApplyFix(fsys, issue)
    [] script = "apply-keyboard-fix.js" -> KeyboardApplyFix(fsys, issue)
    [] script = "apply-heading-fix.js" -> applyHeadingFix(fsys, issue)
    [] script = "apply-image-fix.js" -> applyImageFix(fsys, issue)
    [] script = "apply-link-fix.js" -> applyLinkFix(fsys, issue)
    [] script = "apply-semantic-fix.js" -> applySemanticFix(fsys, issue)
    [] script = "apply-gtm-fix.js" -> applyGtmFix(fsys, issue)

\* a handler that writes the target before the .bak
WriteOrderTargetFirst(fsys, goal, f) ==
  <<f, Bak(f)>> \o (IF goal[EnvExample] # fsys[EnvExample] THEN <<EnvExample>> ELSE <<>>)
\* the writeFileSync calls of a successful handler, in program order: the
\* .bak, the target, and for the GTM handler .env.example
WriteOrder(fsys, goal, f) ==
  <<Bak(f), f>> \o (IF goal[EnvExample] # fsys[EnvExample] THEN <<EnvExample>> ELSE <<>>)

\* the handler starts, computes its result and, if it is a success, does
\* its first write; a failure is returned without any write
BeginFix ==
  /\ nruns < MaxRuns
  /\ last.todo = <<>>
  /\ \E script \in Scripts, ln \in Lines :
     \E prob \in ProblemsOf(script) :
     \E issue \in {Finding(IndexHtml, ln, prob, "nextjs")} :
     \E r \in {Handler(script, files, issue)} :
     \E order \in {WriteOrder(files, r.fs, issue.file)} :
       /\ nruns = 0 \/ (last.script = script /\ last.issue = issue)
       /\ files' = IF r.success THEN [files EXCEPT ![Head(order)] = r.fs[Head(order)]]
                   ELSE files
       /\ last' = [script |-> script, issue |-> issue, success |-> FALSE,
                   msg |-> r.msg, pre |-> files, goal |-> r.fs,
                   todo |-> IF r.success THEN Tail(order) ELSE <<>>]
  /\ nruns' = nruns + 1
  /\ UNCHANGED <<rvars, fvars>>

\* the next writeFileSync; after the last one the handler prints success
NextWrite ==
  /\ last.todo # <<>>
  /\ files' = [files EXCEPT ![Head(last.todo)] = last.goal[Head(last.todo)]]
  /\ last' = [last EXCEPT !.todo = Tail(last.todo), !.success = (Tail(last.todo) = <<>>)]
  /\ UNCHANGED <<nruns, rvars, fvars>>

\* the process is killed between two writes
Killed ==
  /\ last.todo # <<>>
  /\ last' = [last EXCEPT !.todo = <<>>, !.msg = "killed"]
  /\ UNCHANGED <<files, nruns, rvars, fvars>>

WriteNext ==
  \/ BeginFix
  \/ NextWrite
  \/ Killed

WriteInit ==
  /\ files \in WriteProjects
  /\ last = NoRun
  /\ nruns = 0
  /\ ReportIdle
  /\ FixIdle

SpecWrite == WriteInit /\ [][WriteNext]_vars

ScanNext == ScanKeyboard

ScanInit ==
  /\ files = NoFiles
  /\ last = NoRun
  /\ nruns = 0
  /\ scanResults = <<>>
  /\ report = NoReport
  /\ md = <<>>
  /\ rpc = "scan"
  /\ scan \in {[NoScan EXCEPT !.tree = t, !.fw = fw] : t \in ScanTrees, fw \in ScanFrameworks}
  /\ FixIdle

SpecScan == ScanInit /\ [][ScanNext]_vars

\* ---------------------------------------------- seo-lint.js, ui-lint.sh
\* The hooks run on one file path after an edit. arg.given: a path was
\* passed; arg.readable: reading the path as a file succeeds (it fails for a
\* directory and for a file without read permission).
LintArgs ==
  [given : BOOLEAN, path : {IndexHtml, PageJsx, PackageJson}, readable : BOOLEAN]

LintProjects ==
  { [NoFiles EXCEPT ![p] = c] :
      p \in {IndexHtml, PageJsx},
      c \in UNION {[1..n -> WriteLines \cup {<<ImgOpen, AltEmpty, SrcIcon, Gt>>}] : n \in 1..MaxLines} }

\* /<img\s(?![^>]*\balt\s*=)/i.test(content)
ImgWithoutAlt(toks) ==
  \E k \in 1..Len(toks) :
    /\ toks[k] = ImgOpen
    /\ ~\E c \in (k + 1)..Len(toks) :
          toks[c] \in AltAttr /\ \A g \in (k + 1)..(c - 1) : toks[g] \notin HasGt

\* (content.match(/<h1[\s>]/gi) || []).length
H1Count(toks) == Cardinality({k \in 1..Len(toks) : toks[k] = H1Open})

\* grep -qP '<(div|span)\s[^>]*onClick' on the content, line by line
OnClickOnDiv(lines) ==
  \E i \in 1..Len(lines) : \E k \in 1..Len(lines[i]) :
    lines[i][k] \in DivSpanOpen /\ CarriesOnClick(lines[i], k)

LintResult(code, stream, text) ==
  [code |-> code, out |-> [stream |-> stream, success |-> FALSE, text |-> text]]

\* seo-lint.js, the whole script
seoLint(arg, fsys) ==
  IF ~arg.given THEN LintResult(0, "", "")
  ELSE IF Ext(arg.path) \notin {".html", ".jsx"} THEN LintResult(0, "", "")
  ELSE IF fsys[arg.path] = <<>> THEN LintResult(0, "", "")
  ELSE IF ~arg.readable
  THEN LintResult(1, "stderr", "uncaught exception of fs.readFileSync")
  ELSE LET toks == Flatten(fsys[arg.path])
       IN IF ImgWithoutAlt(toks) /\ H1Count(toks) > 1
          THEN LintResult(0, "stdout", "SEO: <img> tag without alt attribute found; SEO: Multiple H1 tags found")
          ELSE IF ImgWithoutAlt(toks)
          THEN LintResult(0, "stdout", "SEO: <img> tag without alt attribute found")
          ELSE IF H1Count(toks) > 1
          THEN LintResult(0, "stdout", "SEO: Multiple H1 tags found")
          ELSE LintResult(0, "", "")

\* ui-lint.sh, the whole script: [ ! -f "$FILE" ] leaves for a directory, and
\* CONTENT is empty when cat cannot read the file
uiLint(arg, fsys) ==
  IF ~arg.given THEN LintResult(0, "", "")
  ELSE IF Ext(arg.path) # ".jsx" THEN LintResult(0, "", "")
  ELSE IF fsys[arg.path] = <<>> THEN LintResult(0, "", "")
  ELSE IF ~arg.readable THEN LintResult(0, "", "")
  ELSE LET lines == fsys[arg.path]
       IN IF ImgWithoutAlt(Flatten(lines)) /\ OnClickOnDiv(lines)
          THEN LintResult(0, "stdout", "UI: <img> without alt attribute; UI: onClick on <div>/<span>")
          ELSE IF ImgWithoutAlt(Flatten(lines))
          THEN LintResult(0, "stdout", "UI: <img> without alt attribute")
          ELSE IF OnClickOnDiv(lines)
          THEN LintResult(0, "stdout", "UI: onClick on <div>/<span>")
          ELSE LintResult(0, "", "")

LintRun(hook, arg, r) ==
  /\ last' = [NoRun EXCEPT !.script = hook,
                           !.issue = Finding(arg.path, 1, "", ""),
                           !.success = arg.given,
                           !.msg = IF arg.readable THEN "readable" ELSE "unreadable"]
  /\ exitCode' = r.code
  /\ output' = r.out
  /\ UNCHANGED <<files, nruns, rvars, domain, reportFile, filter, dryRun, fpc,
                 targetIssues, idx, fixed, skipped, manualReview, dispatched,
                 fixReport, failure, files0>>

SeoLint == \E arg \in LintArgs : LintRun("seo-lint.js", arg, seoLint(arg, files))

UiLint == \E arg \in LintArgs : LintRun("ui-lint.sh", arg, uiLint(arg, files))

LintNext ==
  \/ SeoLint
  \/ UiLint

LintInit ==
  /\ files \in LintProjects
  /\ last = NoRun
  /\ nruns = 0
  /\ ReportIdle
  /\ FixIdle

SpecLint == LintInit /\ [][LintNext]_vars

\* ------------------------------------------------------------ apply-fix.js
\* The two orchestrators (accessibility and SEO) are one loop with a
\* different routing test, script map, id prefix and report file name.

P_DYNAMIC == "Loading indicator has no accessible text or ARIA attributes"
P_RENDER == "Page/layout uses 'use client' directive"
P_SVGNAME == "SVG with role=\"img\" missing accessible name"

ToLower(w) ==
  CASE w = "All" -> "all" [] w = "Images" -> "images"
    [] w = "A11Y" -> "a11y" [] w = "SEO" -> "seo"
    [] OTHER -> w

ToUpper(w) ==
  CASE w = "a11y" -> "A11Y" [] w = "seo" -> "SEO" [] OTHER -> w

Prefix(dom) == IF dom = "a11y" THEN "A11Y" ELSE "SEO"

\* filter.match(/^A11Y-\d+$/i), filter.match(/^SEO-\d+$/i)
MatchesId(dom, flt) ==
  flt.word = "" /\ ToUpper(flt.prefix) = Prefix(dom) /\ Len(flt.digits) >= 1

\* the filter chain; a filter that is neither "all" nor id-shaped is
\* compared with the categories
Select(dom, allIssues, flt) ==
  IF ToLower(flt.word) = "all" THEN allIssues
  ELSE IF MatchesId(dom, flt)
  THEN SelectSeq(allIssues,
         LAMBDA i : ToUpper(i.id.prefix) = ToUpper(flt.prefix) /\ i.id.digits = flt.digits)
  ELSE SelectSeq(allIssues, LAMBDA i : flt.word # "" /\ i.category = ToLower(flt.word))

\* a loop head without the autoFixPossible test
A11yRouteNoAutoTest(issue, dry) ==
  IF dry THEN "preview" ELSE "apply"

\* the tests at the head of the accessibility loop
A11yRoute(issue, dry) ==
  IF ~issue.autoFixPossible THEN "manualReview"
  ELSE IF dry THEN "preview"
  ELSE "apply"

\* the tests at the head of the SEO loop
SeoRoute(issue, dry) ==
  IF issue.category = "rendering" THEN "recommendations"
  ELSE IF ~issue.autoFixPossible THEN "skipped"
  ELSE IF dry THEN "preview"
  ELSE "apply"

\* scriptMap[issue.category]; "" for undefined
A11yScriptMap(cat) ==
  CASE cat = "semantics" -> "apply-semantics-fix.js"
    [] cat = "accessible-names" -> "apply-names-fix.js"
    [] cat = "images" -> "apply-images-fix.js"
    [] cat = "forms" -> "apply-forms-fix.js"
    [] cat = "aria" -> "apply-aria-fix.js"
    [] cat = "keyboard" -> "apply-keyboard-fix.js"
    [] cat = "patterns" -> "apply-patterns-fix.js"
    [] OTHER -> ""

SeoScriptMap(cat) ==
  CASE cat = "title" -> "apply-meta-fix.js"
    [] cat = "meta-description" -> "apply-meta-fix.js"
    [] cat = "headings" -> "apply-heading-fix.js"
    [] cat = "semantic-html" -> "apply-semantic-fix.js"
    [] cat = "images" -> "apply-image-fix.js"
    [] cat = "internal-links" -> "apply-link-fix.js"
    [] OTHER -> ""

\* the handler process: node "<script>" '<issue-json>' "<project-root>"
RunScript(script, fsys, issue) ==
  CASE script = "apply-semantics-fix.js" -> SemanticsApplyFix(fsys, issue)
    [] script = "apply-images-fix.js" -> ImagesApplyFix(fsys, issue)
    [] script = "apply-keyboard-fix.js" -> KeyboardApplyFix(fsys, issue)
    [] script = "apply-heading-fix.js" -> applyHeadingFix(fsys, issue)
    [] script = "apply-image-fix.js" -> applyImageFix(fsys, issue)
    [] script = "apply-link-fix.js" -> applyLinkFix(fsys, issue)
    [] script = "apply-semantic-fix.js" -> applySemanticFix(fsys, issue)

\* the project directory a handler process leaves when it is killed or
\* dies: nothing written, only the .bak files written, or all written
Progress(fsys, r, progress) ==
  CASE progress = "before" -> fsys
    [] progress = "bak" -> [p \in AllPaths |-> IF p \in BasePaths THEN fsys[p] ELSE r.fs[p]]
    [] progress = "done" -> r.fs

\* a dispatch that takes the handler's result although its process ended
\* abnormally
execSyncAlwaysParsed(fsys, r, fm) ==
  IF fm.at = 0
  THEN [fs |-> r.fs, success |-> r.success, msg |-> <<r.msg>>, ran |-> TRUE]
  ELSE [fs |-> Progress(fsys, r, fm.progress), success |-> TRUE,
        msg |-> <<r.msg>>, ran |-> TRUE]

\* execSync(...) and JSON.parse(output.trim()) inside try/catch: a process
\* that times out, exits non-zero or prints no JSON yields
\* { success: false, reason: err.message }; r is what the handler process
\* does when it runs to its end
execSync(fsys, r, fm) ==
  IF fm.at = 0
  THEN [fs |-> r.fs, success |-> r.success, msg |-> <<r.msg>>, ran |-> TRUE]
  ELSE [fs |-> Progress(fsys, r, fm.progress), success |-> FALSE,
        msg |-> <<fm.error>>, ran |-> TRUE]

applyCategoryFix(dom, fsys, issue, fm) ==
  LET script == IF dom = "a11y" THEN A11yScriptMap(issue.category)
                ELSE SeoScriptMap(issue.category)
  IN IF script = ""
     THEN [fs |-> fsys, success |-> FALSE,
           msg |-> <<"No fix script for category: ", issue.category>>, ran |-> FALSE]
     ELSE execSync(fsys, RunScript(script, fsys, issue), fm)

Entry(issue) == [id |-> issue.id, file |-> issue.file, problem |-> issue.problem]

\* a loop body that records only the successes
PushResultDropsFailure(issue, result) ==
  IF result.success
  THEN [list |-> "fixed", entry |-> Entry(issue) @@ [action |-> result.msg]]
  ELSE [list |-> "none", entry |-> Entry(issue) @@ [reason |-> result.msg]]

\* result.success ? fixed.push(...) : skipped.push(...)
PushResult(issue, result) ==
  IF result.success
  THEN [list |-> "fixed", entry |-> Entry(issue) @@ [action |-> result.msg]]
  ELSE [list |-> "skipped", entry |-> Entry(issue) @@ [reason |-> result.msg]]

\* the try block of the loop body, result being applyCategoryFix(issue)
Applied(issue, result) ==
  [fs |-> result.fs, ran |-> result.ran] @@ PushResult(issue, result)

\* one iteration of the for loop over targetIssues
ProcessIssue(dom, fsys, issue, dry, fm) ==
  LET route == IF dom = "a11y" THEN A11yRoute(issue, dry) ELSE SeoRoute(issue, dry)
      still == [fs |-> fsys, ran |-> FALSE]
  IN CASE route = "manualReview" ->
            still @@ [list |-> "manualReview",
                      entry |-> Entry(issue) @@
                        [recommendation |-> issue.recommendedFix,
                         reason |-> <<"Auto-fix not available - manual review required.">>]]
       [] route = "recommendations" ->
            still @@ [list |-> "manualReview",
                      entry |-> Entry(issue) @@
                        [recommendation |-> issue.recommendedFix,
                         reason |-> <<"Rendering fixes require manual review and cannot be safely auto-applied.">>]]
       [] route = "skipped" ->
            still @@ [list |-> "skipped",
                      entry |-> Entry(issue) @@
                        [reason |-> <<"Auto-fix not available for this issue.">>]]
       [] route = "preview" ->
            still @@ [list |-> "fixed",
                      entry |-> Entry(issue) @@
                        [action |-> <<"Would apply fix: ", issue.recommendedFix>>,
                         dryRun |-> TRUE]]
       [] route = "apply" ->
            Applied(issue, applyCategoryFix(dom, fsys, issue, fm))

\* a fix report written in both modes
WritesFixReportAlways(dry) == TRUE

\* if (!dryRun) generateFixReport(...)
WritesFixReport(dry) == ~dry

\* the Findings a report file may hold: per category one Finding of a
\* scanner, with either value of autoFixPossible
A11yFindings ==
  { [category |-> t[1], file |-> t[2], line |-> 1, problem |-> t[3],
     recommendedFix |-> t[4], autoFixPossible |-> a, framework |-> "html", id |-> NoId] :
      t \in { <<"keyboard", IndexHtml, P_TABPOS, "Use tabindex=\"0\"">>,
              <<"semantics", IndexHtml, P_ONCLICK, "Replace with <button>">>,
              <<"images", PageJsx, P_IMGALT, "Add a descriptive alt attribute">>,
              <<"dynamic", IndexHtml, P_DYNAMIC, "Add aria-label=\"Loading\" and role=\"status\"">> },
      a \in BOOLEAN }
  \cup
  { [category |-> "accessible-names", file |-> IndexHtml, line |-> 1, problem |-> P_SVGNAME,
     recommendedFix |-> "Add aria-label or <title> to the SVG", autoFixPossible |-> FALSE,
     framework |-> "html", id |-> NoId] }

SeoFindings ==
  { [category |-> t[1], file |-> t[2], line |-> 1, problem |-> t[3],
     recommendedFix |-> t[4], autoFixPossible |-> a, framework |-> "nextjs", id |-> NoId] :
      t \in { <<"internal-links", IndexHtml, P_NEXTLINK, "Use next/link">>,
              <<"images", PageJsx, P_IMGALT, "Add a descriptive alt attribute">>,
              <<"rendering", PageJsx, P_RENDER, "Move SEO-critical content to a Server Component">>,
              <<"gtm", IndexHtml, P_GTMNONE, "Install Google Tag Manager">> },
      a \in BOOLEAN }
  \cup
  { [category |-> "internal-links", file |-> IndexHtml, line |-> 3, problem |-> P_NEXTLINK,
     recommendedFix |-> "Use next/link", autoFixPossible |-> TRUE, framework |-> "nextjs",
     id |-> NoId] }

FindingsOf(dom) == IF dom = "a11y" THEN A11yFindings ELSE SeoFindings

\* a report file: its issues carry the ids <PREFIX>-001, <PREFIX>-002, ...
ReportsOf(dom) ==
  { [i \in 1..Len(fs) |-> [fs[i] EXCEPT !.id = FormatId(Prefix(dom), i)]] :
      fs \in UNION {[1..n -> FindingsOf(dom)] : n \in 0..MaxIssues} }

Word(w) == [prefix |-> "", digits |-> <<>>, word |-> w]

FiltersOf(dom) ==
  { Word("All"), Word("Images"), Word("rendering"), Word("names"), Word("nomatch"),
    [prefix |-> ToLower(Prefix(dom)), digits |-> <<0, 0, 1>>, word |-> ""] }

\* the project the fixes are applied to; page.jsx may be missing
FixProjects(dom) ==
  LET page == << <<ImgOpen, SrcPhoto, Gt>> >>
      index == IF dom = "a11y"
               THEN << <<DivOpen, TabPos, OnClick, Gt, Text, DivClose>> >>
               ELSE << <<AOpen, HrefAbout, Gt, Text, AClose>> >>
      links == << <<AOpen, HrefAbout, Gt, Text, AClose>>,
                  <<AOpen, HrefExt, Gt, Text, AClose>>,
                  <<AOpen, HrefAbout, Gt, Text, AClose>> >>
  IN { [NoFiles EXCEPT ![IndexHtml] = index, ![PageJsx] = page],
       [NoFiles EXCEPT ![IndexHtml] = index] }
     \cup (IF dom = "seo" THEN {[NoFiles EXCEPT ![IndexHtml] = links]} ELSE {})

\* how a handler process can end abnormally: a timeout before or in the
\* middle of its writes, a non-zero exit or unparsable output after them
FailureModes ==
  { [error |-> "spawnSync /bin/sh ETIMEDOUT", progress |-> "before"],
    [error |-> "spawnSync /bin/sh ETIMEDOUT", progress |-> "bak"],
    [error |-> "Command failed", progress |-> "done"],
    [error |-> "Unexpected token in JSON", progress |-> "done"] }

\* fs.existsSync(reportPath) that answers true for every path
existsSyncAlways(dom, fsys, rf) == TRUE
\* fs.existsSync(reportPath)
existsSync(dom, fsys, rf) == rf.present

\* the error printed when the report is missing
NotFound(dom) ==
  [stream |-> "stderr", success |-> FALSE,
   text |-> IF dom = "a11y" THEN "a11y-report.json not found. Run a11y-audit first."
            ELSE "seo-report.json not found. Run seo-audit first."]

\* a test of the selection that never takes the early return
IsEmptySelectionNever(sel) == FALSE
\* targetIssues.length === 0
IsEmptySelection(sel) == Len(sel) = 0

\* the result printed when the selection is empty
NoMatch == [stream |-> "stdout", success |-> TRUE, text |-> "No issues found matching filter"]

\* the result printed after the loop
Results == [stream |-> "stdout", success |-> TRUE, text |-> ""]

\* applyFixes up to the loop: load the report, select the target issues
LoadReport ==
  /\ fpc = "start"
  /\ IF ~existsSync(domain, files, reportFile)
     THEN /\ fpc' = "exit"
          /\ exitCode' = 1
          /\ output' = NotFound(domain)
          /\ UNCHANGED targetIssues
     ELSE LET sel == Select(domain, reportFile.issues, filter)
          IN /\ targetIssues' = sel
             /\ fpc' = IF IsEmptySelection(sel) THEN "done" ELSE "loop"
             /\ exitCode' = IF IsEmptySelection(sel) THEN 0 ELSE -1
             /\ output' = IF IsEmptySelection(sel) THEN NoMatch ELSE output
  /\ UNCHANGED <<domain, reportFile, filter, dryRun, idx, fixed, skipped, manualReview,
                 dispatched, fixReport, failure, files0, files, last, nruns, rvars>>

\* one iteration of the loop; the handler process it starts may end
\* abnormally (at most one does in a run)
FixIssue ==
  /\ fpc = "loop"
  /\ idx <= Len(targetIssues)
  /\ \E fm \in {NoFailure} \cup {[at |-> idx] @@ m : m \in FailureModes},
        issue \in {targetIssues[idx]} :
     \E o \in {ProcessIssue(domain, files, issue, dryRun, fm)} :
          /\ fm # NoFailure => (failure = NoFailure /\ o.ran)
          /\ files' = o.fs
          /\ fixed' = IF o.list = "fixed" THEN Append(fixed, o.entry) ELSE fixed
          /\ skipped' = IF o.list = "skipped" THEN Append(skipped, o.entry) ELSE skipped
          /\ manualReview' = IF o.list = "manualReview" THEN Append(manualReview, o.entry)
                             ELSE manualReview
          /\ dispatched' = IF o.ran THEN Append(dispatched, issue.id) ELSE dispatched
          /\ failure' = IF fm # NoFailure THEN fm ELSE failure
  /\ idx' = idx + 1
  /\ UNCHANGED <<domain, reportFile, filter, dryRun, fpc, targetIssues, fixReport,
                 exitCode, files0, output, last, nruns, rvars>>

\* after the loop: write the fix report unless previewing, print the result
Finish ==
  /\ fpc = "loop"
  /\ idx > Len(targetIssues)
  /\ fixReport' = IF WritesFixReport(dryRun)
                  THEN [written |-> TRUE, fixed |-> Len(fixed), skipped |-> Len(skipped),
                        manualReview |-> Len(manualReview)]
                  ELSE fixReport
  /\ fpc' = "done"
  /\ exitCode' = 0
  /\ output' = Results
  /\ UNCHANGED <<domain, reportFile, filter, dryRun, targetIssues, idx, fixed, skipped,
                 manualReview, dispatched, failure, files0, files, last, nruns, rvars>>

FixInit ==
  /\ domain \in {"a11y", "seo"}
  /\ reportFile \in {[present |-> FALSE, issues |-> <<>>]}
                    \cup {[present |-> TRUE, issues |-> r] : r \in ReportsOf(domain)}
  /\ filter \in FiltersOf(domain)
  /\ dryRun \in BOOLEAN
  /\ files \in FixProjects(domain)
  /\ files0 = files
  /\ fpc = "start"
  /\ targetIssues = <<>>
  /\ idx = 1
  /\ fixed = <<>>
  /\ skipped = <<>>
  /\ manualReview = <<>>
  /\ dispatched = <<>>
  /\ fixReport = NoFixReport
  /\ exitCode = -1
  /\ failure = NoFailure
  /\ output = NoOutput
  /\ last = NoRun
  /\ nruns = 0
  /\ ReportIdle

FixNext ==
  \/ LoadReport
  \/ FixIssue
  \/ Finish

SpecFix == FixInit /\ [][FixNext]_vars

\* --------------------------------------------------------------- claims
\* C1: running a Finding's Fix Handler twice in succession returns success
\* the first time and failure the second time, and the second run leaves
\* the file as the first run left it.
C1_Idempotent ==
  [][(nruns' = nruns + 1 /\ last.success
        /\ last'.script = last.script /\ last'.issue = last.issue)
       => (~last'.success /\ files'[last.issue.file] = files[last.issue.file])]_vars

\* C2: after a successful handler run every file the run changed has a
\* .bak that holds the content the file had before the run.
C2_Backup ==
  last.success =>
    \A p \in BasePaths :
      (last.pre[p] # <<>> /\ files[p] # last.pre[p]) => files[Bak(p)] = last.pre[p]

\* value of an id's digits
RECURSIVE IdNum(_)
IdNum(ds) == IF ds = <<>> THEN 0 ELSE 10 * IdNum(SubSeq(ds, 1, Len(ds) - 1)) + ds[Len(ds)]

\* C5: the ids of an emitted Report of N issues are exactly SEO-001 ..
\* SEO-N, each occurring once.
C5_IdsContiguous ==
  report.written =>
    \A k \in 1..Len(report.issues) :
      Cardinality({i \in 1..Len(report.issues) :
                     report.issues[i].id = FormatId("SEO", k)}) = 1

\* C6: in an emitted Report ascending id order is (category rank, severity
\* rank) order: of two issues the one with the smaller id has the earlier
\* category, or the same category and a severity that is not of lower
\* priority in the order critical, high, medium, low.  Stated for the
\* Reports whose input records carried no id, where every id is the
\* generator's.
C6_IdOrderIsSortOrder ==
  (report.written /\ \A k \in 1..Len(scanResults) : scanResults[k].id = NoId) =>
    \A i, j \in 1..Len(report.issues) :
      LET a == report.issues[i]
          b == report.issues[j]
      IN IdNum(a.id.digits) < IdNum(b.id.digits) =>
           \/ CategoryIndex(a.category) < CategoryIndex(b.category)
           \/ /\ a.category = b.category
              /\ SEVERITY_ORDER[a.severity] <= SEVERITY_ORDER[b.severity]

InputCount(cat) == Cardinality({k \in 1..Len(scanResults) : scanResults[k].category = cat})

\* C7: the human-readable Report has a count row and a section for every
\* declared category, and the section of a category without findings reads
\* "No issues found."
C7_EveryCategoryListed ==
  rpc = "done" =>
    \A c \in 1..Len(CATEGORIES) :
      LET label == CATEGORY_LABELS(CATEGORIES[c])
          n == InputCount(CATEGORIES[c])
      IN /\ \E i \in 1..Len(md) : md[i] = MdRow(label, n)
         /\ \E i \in 1..(Len(md) - 2) :
              /\ md[i] = MdSection(label)
              /\ n = 0 => md[i + 2] = MdText("No issues found.")
              /\ n > 0 => md[i + 2].kind = "issue"

\* a Report of findings in which one declared category has findings and
\* another has none has been rendered
C7_Witness ==
  /\ rpc = "done"
  /\ InputCount("title") > 0
  /\ InputCount("gtm") = 0
  /\ \E i \in 1..Len(md) : md[i] = MdText("No issues found.")

\* ------------------------------------------------- fix orchestrator claims
ManualOnly(dom) == IF dom = "a11y" THEN "dynamic" ELSE "rendering"

InList(list, id) == \E e \in 1..Len(list) : list[e].id = id
EntryOf(list, id) == list[CHOOSE e \in 1..Len(list) : list[e].id = id]
Occurrences(list, id) == Cardinality({e \in 1..Len(list) : list[e].id = id})
WasDispatched(id) == \E e \in 1..Len(dispatched) : dispatched[e] = id

\* the targets the loop has dealt with
Processed == IF fpc \in {"loop", "done"} THEN 1..(idx - 1) ELSE {}

\* C3: a dry-run starts no handler process and leaves every file as it
\* was: no source file or .bak is created or changed and no fix report is
\* written, whatever the filter and the report.
C3_DryRunPure ==
  dryRun => (files = files0 /\ ~fixReport.written /\ dispatched = <<>>)

\* a dry-run over a report with an auto-fixable Finding has returned its
\* preview
C3_Witness ==
  /\ dryRun
  /\ fpc = "done"
  /\ Len(fixed) > 0
  /\ \E k \in 1..Len(targetIssues) : targetIssues[k].category # "dynamic"
                                       /\ InList(fixed, targetIssues[k].id)

\* the list a target ended in and the entry it got there
Outcome(id) ==
  IF InList(fixed, id) THEN [list |-> "fixed", entry |-> EntryOf(fixed, id)]
  ELSE IF InList(skipped, id) THEN [list |-> "skipped", entry |-> EntryOf(skipped, id)]
  ELSE IF InList(manualReview, id)
  THEN [list |-> "manualReview", entry |-> EntryOf(manualReview, id)]
  ELSE [list |-> "none", entry |-> [id |-> id]]

RECURSIVE Reference(_, _, _)
\* the outcomes of an apply run over the targets from position k on in
\* which every handler process ends normally
Reference(fsys, issues, k) ==
  IF k > Len(issues) THEN <<>>
  ELSE LET o == ProcessIssue(domain, fsys, issues[k], FALSE, NoFailure)
       IN <<[list |-> o.list, entry |-> o.entry]>> \o Reference(o.fs, issues, k + 1)

InExactlyOneList(id) ==
  Occurrences(fixed, id) + Occurrences(skipped, id) + Occurrences(manualReview, id) = 1

FailedIsSkipped ==
  LET issue == targetIssues[failure.at]
  IN /\ InExactlyOneList(issue.id)
     /\ Outcome(issue.id) =
          [list |-> "skipped", entry |-> Entry(issue) @@ [reason |-> <<failure.error>>]]

IsSelected(issue) ==
  \/ ToLower(filter.word) = "all"
  \/ /\ filter.word = ""
     /\ ToUpper(filter.prefix) = issue.id.prefix
     /\ filter.digits = issue.id.digits
  \/ /\ filter.word # ""
     /\ issue.category = ToLower(filter.word)

C9_ManualOnlyNeverAutomated ==
  \A k \in Processed :
    LET issue == targetIssues[k]
    IN issue.category = ManualOnly(domain) =>
         /\ InList(manualReview, issue.id)
         /\ EntryOf(manualReview, issue.id).recommendation = issue.recommendedFix
         /\ ~InList(fixed, issue.id)
         /\ ~InList(skipped, issue.id)
         /\ ~WasDispatched(issue.id)

NoRemedyReasons ==
  { <<"Auto-fix not available for this issue.">>,
    <<"Auto-fix not available - manual review required.">> }

C11_BackupOfRunStart ==
  (fpc = "done" /\ ~dryRun) =>
    \A p \in BasePaths :
      files[p] # files0[p] => files[Bak(p)] = files0[p]

\* C12: when the report file is absent, the run ends before anything else:
\* exit status 1, the "run the audit first" error on stderr, no handler
\* started, no file of the project created or changed, no fix report.
C12_MissingReportFails ==
  (~reportFile.present /\ fpc # "start") =>
    /\ fpc = "exit"
    /\ exitCode = 1
    /\ output = NotFound(domain)
    /\ dispatched = <<>>
    /\ fixed = <<>> /\ skipped = <<>> /\ manualReview = <<>>
    /\ files = files0
    /\ ~fixReport.written

C12_Witness ==
  /\ ~reportFile.present
  /\ fpc = "exit"
  /\ exitCode = 1
  /\ \E p \in SourceFiles : files[p] # <<>>

\* the category names the /a11y-fix command documents as accepted values
AcceptedCategories ==
  {"semantics", "names", "images", "forms", "aria", "keyboard", "patterns"}

\* the category field the scanners give the Findings of a documented
\* category: the accessible-names scanner writes 'accessible-names'
ScannedCategory(name) == IF name = "names" THEN "accessible-names" ELSE name

\* C13: the Findings selected from a report of the accessibility plugin
\* are all of them for 'all', those with the selector's id for an id, and
\* for each documented category name those of that category.
C13_SelectionByDocumentedName ==
  (domain = "a11y" /\ reportFile.present /\ fpc # "start") =>
    IF ToLower(filter.word) = "all"
    THEN targetIssues = reportFile.issues
    ELSE IF filter.word = ""
    THEN targetIssues = SelectSeq(reportFile.issues,
                          LAMBDA i : i.id = [prefix |-> ToUpper(filter.prefix),
                                             digits |-> filter.digits])
    ELSE ToLower(filter.word) \in AcceptedCategories =>
           targetIssues = SelectSeq(reportFile.issues,
                            LAMBDA i : i.category = ScannedCategory(ToLower(filter.word)))

\* C14: when the filter selects no Finding of the report, the run returns
\* successfully (exit status 0, success = true, the three lists empty),
\* starts no handler and changes no source file and no .bak.
C14_EmptySelectionSucceeds ==
  (reportFile.present /\ fpc # "start"
     /\ Select(domain, reportFile.issues, filter) = <<>>) =>
    /\ fpc = "done"
    /\ exitCode = 0
    /\ output = NoMatch
    /\ fixed = <<>> /\ skipped = <<>> /\ manualReview = <<>>
    /\ dispatched = <<>>
    /\ files = files0

C14_Witness ==
  /\ reportFile.present
  /\ reportFile.issues # <<>>
  /\ Select(domain, reportFile.issues, filter) = <<>>
  /\ fpc = "done"
  /\ output.success
  /\ ~dryRun

\* what the scanners emit for the modelled Findings: category, problem
\* and the autoFixPossible they set
ScannerEmits(dom) ==
  IF dom = "a11y"
  THEN { <<"keyboard", P_TABPOS, TRUE>>, <<"semantics", P_ONCLICK, TRUE>>,
         <<"images", P_IMGALT, TRUE>>, <<"dynamic", P_DYNAMIC, FALSE>>,
         <<"accessible-names", P_SVGNAME, FALSE>> }
  ELSE { <<"internal-links", P_NEXTLINK, TRUE>>, <<"images", P_IMGALT, TRUE>>,
         <<"rendering", P_RENDER, FALSE>>, <<"gtm", P_GTMNONE, TRUE>> }

EmittedAutoFixable(dom, issue) ==
  /\ issue.autoFixPossible
  /\ <<issue.category, issue.problem, TRUE>> \in ScannerEmits(dom)

\* C15: a Finding that a scanner emits with autoFixPossible = true is
\* never skipped in an apply run because the orchestrator has no fix
\* script for its category.
C15_AutoFixableHasHandler ==
  ~dryRun =>
    \A j \in 1..(idx - 1) :
      EmittedAutoFixable(domain, targetIssues[j]) =>
        ~\E k \in 1..Len(skipped) :
            /\ skipped[k].id = targetIssues[j].id
            /\ skipped[k].reason = <<"No fix script for category: ", targetIssues[j].category>>

\* the scanner's match for a Finding is gone from the place the Finding
\* names: no positive tabindex on the line (scan-keyboard.js), no <img>
\* without alt on the line (scan-images.js), a <main> in the file
\* (scan-semantic.js); other Findings are not judged
DefectGone(script, fsys, issue) ==
  LET content == fsys[issue.file]
  IN CASE script = "apply-keyboard-fix.js" /\ issue.problem = P_TABPOS ->
            ~Test(content[issue.line], {TabPos})
       [] script = "apply-images-fix.js" /\ issue.problem = P_IMGALT ->
            ~Test(content[issue.line], {ImgOpen}) \/ Test(content[issue.line], AltAttr)
       [] script = "apply-semantic-fix.js" /\ issue.problem = P_NOMAIN ->
            HasToken(content, {MainOpen})
       [] OTHER -> FALSE

\* the Finding no longer applies to the project as the handler finds it
Stale(script, fsys, issue) ==
  \/ fsys[issue.file] = <<>>
  \/ issue.line > Len(fsys[issue.file])
  \/ DefectGone(script, fsys, issue)

\* C16: a handler run for a Finding whose file is absent, whose line is
\* out of range or whose defect is no longer at that place returns
\* failure and writes nothing, neither the file nor a .bak.
C16_StaleFindingFails ==
  (nruns >= 1 /\ Stale(last.script, last.pre, last.issue)) =>
    (~last.success /\ files = last.pre)

\* the div/span-to-button handler gets as far as its search for the
\* closing tag: the Finding's line holds a <div or <span, nothing
\* interactive and no href follows it on the line
ReachesCloseSearch(fsys, issue) ==
  /\ fsys[issue.file] # <<>>
  /\ issue.line <= Len(fsys[issue.file])
  /\ LET line == fsys[issue.file][issue.line]
     IN /\ Test(line, DivSpanOpen)
        /\ ~Test(SubSeq(line, IndexOf(line, DivSpanOpen), Len(line)),
                 InteractiveOpen \cup HrefAttr)

\* no closing tag of the element's type on the Finding's line or below
NoClosingTag(fsys, issue) ==
  LET lines == fsys[issue.file]
      close == IF lines[issue.line][IndexOf(lines[issue.line], DivSpanOpen)] = DivOpen
               THEN DivClose ELSE SpanClose
  IN \A k \in issue.line..Len(lines) : ~Test(lines[k], {close})

\* C17: when the div/span-to-button handler finds no closing tag, it
\* returns failure with the reason "Could not find closing tag" and
\* writes nothing: the file is as before and there is no new .bak.
C17_NoClosingTagNoWrite ==
  (nruns >= 1 /\ last.script = "apply-semantics-fix.js" /\ last.issue.problem = P_ONCLICK
     /\ ReachesCloseSearch(last.pre, last.issue) /\ NoClosingTag(last.pre, last.issue)) =>
    /\ ~last.success
    /\ last.msg = "Could not find closing tag."
    /\ files = last.pre

C17_Witness ==
  /\ nruns >= 1
  /\ last.script = "apply-semantics-fix.js"
  /\ last.issue.problem = P_ONCLICK
  /\ ReachesCloseSearch(last.pre, last.issue)
  /\ NoClosingTag(last.pre, last.issue)
  /\ last.msg = "Could not find closing tag."
  /\ Test(files[last.issue.file][last.issue.line], {OnClick})

RECURSIVE MatchFrom(_, _, _, _, _)
\* position of the closing tag that closes an element whose content starts
\* at pos, by counting the opening and closing tags of its type; 0 when
\* the element is not closed
MatchFrom(toks, pos, open, close, depth) ==
  IF pos > Len(toks) THEN 0
  ELSE IF toks[pos] = open THEN MatchFrom(toks, pos + 1, open, close, depth + 1)
  ELSE IF toks[pos] = close
  THEN IF depth = 0 THEN pos ELSE MatchFrom(toks, pos + 1, open, close, depth - 1)
  ELSE MatchFrom(toks, pos + 1, open, close, depth)

\* the latest run was a successful retagging by the div/span-to-button handler
Retagged ==
  /\ nruns >= 1
  /\ last.script = "apply-semantics-fix.js"
  /\ last.issue.problem = P_ONCLICK
  /\ last.success

\* position, among the tokens of the file, of the opening tag the handler retags
OpenPos(lines, ln) == Len(Flatten(SubSeq(lines, 1, ln - 1))) + IndexOf(lines[ln], DivSpanOpen)

\* C18: after a successful retagging the file differs from the file before
\* in two tags only: the opening tag, and the closing tag that closes that
\* very element (not one of a nested or sibling element), now </button>.
C18_ClosesTheRetaggedElement ==
  Retagged =>
    LET pre == Flatten(last.pre[last.issue.file])
        o == OpenPos(last.pre[last.issue.file], last.issue.line)
        c == MatchFrom(pre, o + 1, pre[o], IF pre[o] = DivOpen THEN DivClose ELSE SpanClose, 0)
    IN /\ c # 0
       /\ Flatten(files[last.issue.file]) = [pre EXCEPT ![o] = ButtonOpen, ![c] = ButtonClose]

\* an interactive element lies inside the element the Finding's line
\* opens, between its opening tag and the closing tag that closes it
InteractiveInside(lines, ln) ==
  LET toks == Flatten(lines)
      o == OpenPos(lines, ln)
      c == MatchFrom(toks, o + 1, toks[o], IF toks[o] = DivOpen THEN DivClose ELSE SpanClose, 0)
  IN \E k \in (o + 1)..(c - 1) : toks[k] \in InteractiveOpen

\* C19: when an interactive element lies between the opening tag to be
\* retagged and its closing tag, on the same line or on a later one, the
\* div/span-to-button handler returns failure and leaves the files as
\* they were.
C19_NoNestedInteractive ==
  (nruns >= 1 /\ last.script = "apply-semantics-fix.js" /\ last.issue.problem = P_ONCLICK
     /\ last.pre[last.issue.file] # <<>>
     /\ last.issue.line <= Len(last.pre[last.issue.file])
     /\ Test(last.pre[last.issue.file][last.issue.line], DivSpanOpen)
     /\ InteractiveInside(last.pre[last.issue.file], last.issue.line)) =>
    (~last.success /\ files = last.pre)

\* b is a with one token put in somewhere
InsertedOne(a, b) ==
  /\ Len(b) = Len(a) + 1
  /\ \E k \in 1..Len(b) : a = SubSeq(b, 1, k - 1) \o SubSeq(b, k + 1, Len(b))

\* the new text differs from the old one in one element: one attribute put
\* in, one attribute taken out, or the tokens of one element (its opening
\* tag or an attribute, and its closing tag) replaced; no line is added or
\* removed
OneElementChanged(old, new) ==
  /\ Len(new) = Len(old)
  /\ \/ InsertedOne(Flatten(old), Flatten(new))
     \/ InsertedOne(Flatten(new), Flatten(old))
     \/ /\ Len(Flatten(new)) = Len(Flatten(old))
        /\ Cardinality({k \in 1..Len(Flatten(old)) :
                          Flatten(new)[k] # Flatten(old)[k]}) \in {1, 2}

\* C20: a successful handler run changes exactly one element of the
\* target file and leaves every other line of it, and every file other
\* than the target and its .bak, unchanged.
C20_OneElementOnly ==
  (nruns >= 1 /\ last.success) =>
    /\ \A p \in AllPaths \ {last.issue.file, Bak(last.issue.file)} : files[p] = last.pre[p]
    /\ OneElementChanged(last.pre[last.issue.file], files[last.issue.file])

\* new is old with the token open put in at some place and the token
\* close put in at a later place
WrappedOnce(old, new, open, close) ==
  /\ Len(new) = Len(old) + 2
  /\ \E i \in 1..Len(new) : \E j \in (i + 1)..Len(new) :
       /\ new[i] = open
       /\ new[j] = close
       /\ old = SubSeq(new, 1, i - 1) \o SubSeq(new, i + 1, j - 1)
                 \o SubSeq(new, j + 1, Len(new))

\* C30: a successful <main> or <header> wrapper insertion adds exactly one
\* opening tag and, after it, exactly one closing tag of that element, and
\* nothing else; a run that cannot place both tags does not succeed.
C30_WrapperBalanced ==
  (nruns >= 1 /\ last.script = "apply-semantic-fix.js" /\ last.success) =>
    LET old == Flatten(last.pre[last.issue.file])
        new == Flatten(files[last.issue.file])
    IN IF last.issue.problem = P_NOMAIN
       THEN WrappedOnce(old, new, MainOpen, MainClose)
       ELSE WrappedOnce(old, new, HeaderOpen, HeaderClose)

\* the texts that become new when the import line, if new holds one, is
\* taken out again
WithoutImport(new, imp) ==
  {new} \cup { SubSeq(new, 1, k - 1) \o SubSeq(new, k + 1, Len(new)) :
                 k \in {i \in 1..Len(new) : new[i] = <<imp>>} }

\* C28: when the img-to-next/image conversion succeeds, the <img> it
\* converted is the one on the Finding's line of the file as it was, and
\* apart from that line only the one import line is new.
C28_ConvertsTheReportedImg ==
  (nruns >= 1 /\ last.script = "apply-image-fix.js" /\ last.issue.problem = P_NATIVEIMG
     /\ last.success) =>
    LET old == last.pre[last.issue.file]
        ln == last.issue.line
    IN /\ ln <= Len(old)
       /\ Test(old[ln], {ImgOpen})
       /\ \E rest \in WithoutImport(files[last.issue.file], ImportNextImage) :
            /\ Len(rest) = Len(old)
            /\ \A k \in 1..Len(old) : k # ln => rest[k] = old[k]
            /\ rest[ln][IndexOf(old[ln], {ImgOpen})] = ImageOpen

\* C29: the opening tag that a successful div/span-to-button run rewrote
\* is one that carries the click handler, also when another div or span
\* opening tag stands before it on the line.
C29_RetagsTheClickElement ==
  Retagged =>
    LET old == last.pre[last.issue.file][last.issue.line]
        new == files[last.issue.file][last.issue.line]
    IN \A k \in 1..Len(old) :
         (old[k] \in DivSpanOpen /\ new[k] = ButtonOpen) => CarriesOnClick(old, k)

\* the loop applies a fix for targetIssues[idx] to a file that an earlier
\* fix of this run has changed
LaterFixApplied ==
  /\ fpc = "loop" /\ ~dryRun
  /\ idx <= Len(targetIssues)
  /\ idx' = idx + 1
  /\ Len(fixed') = Len(fixed) + 1
  /\ \E k \in 1..Len(fixed) : fixed[k].file = targetIssues[idx].file

\* C27: a later Finding's fix on a file that an earlier fix of the run has
\* changed edits the line the Finding was reported for, wherever that line
\* now stands (earlier fixes put their new lines above it), and no other.
C27_LaterFixHitsItsElement ==
  [][LaterFixApplied =>
       LET f == targetIssues[idx].file
           cur == targetIssues[idx].line + Len(files[f]) - Len(files0[f])
           shift == Len(files'[f]) - Len(files[f])
       IN /\ cur \in 1..Len(files[f])
          /\ \A k \in 1..Len(files[f]) : k # cur => files'[f][k + shift] = files[f][k]]_vars

\* C26: in every state of a handler run, also after the process was
\* killed between two writes, a target file that differs from its content
\* before the run has a .bak holding that content.
C26_BackupBeforeTarget ==
  nruns >= 1 =>
    (files[last.issue.file] # last.pre[last.issue.file]
       => files[Bak(last.issue.file)] = last.pre[last.issue.file])

C26_Witness ==
  /\ nruns >= 1
  /\ last.msg = "killed"
  /\ files[last.issue.file] # last.pre[last.issue.file]
  /\ files[Bak(last.issue.file)] = last.pre[last.issue.file]
  /\ last.pre[Bak(last.issue.file)] # last.pre[last.issue.file]

\* C25: when report generation has ended and seo-report.json or
\* seo-report.md was not written, it has ended with the error message and
\* the failure status, not with the success result.
C25_WriteFailureFails ==
  (rpc # "scan" /\ (~report.written \/ md = <<>>)) => rpc = "failed"

\* the JSON report was written, the write of the Markdown report failed
C25_Witness ==
  /\ rpc = "failed"
  /\ report.written
  /\ md = <<>>
  /\ Len(scanResults) >= 1

\* C24: whatever the argument of a lint hook is (none, a path that is not
\* a frontend file, a path that does not exist, a path that exists and
\* cannot be read, a file with or without warnings), the hook ends with
\* exit status 0.
C24_LintExitsZero ==
  last.script \in {"seo-lint.js", "ui-lint.sh"} => exitCode = 0

\* the paths scan-keyboard.js is to look at for a framework
InScope(fw, p) == fw # "angular" \/ Under(SrcDir, p)
\* the file at a path holds something the scanner reports
HasDefect(e) ==
  /\ e.kind = "file"
  /\ \E i \in 1..Len(e.content) : \E k \in 1..Len(e.content[i]) :
       e.content[i][k] \in {TabPos, OutlineNoneAll, FocusNoOutline}
Reported(p) == \E i \in 1..Len(scan.issues) : scan.issues[i].file = p

NoDuplicates(seq) == \A i, j \in 1..Len(seq) : i # j => seq[i] # seq[j]

\* C22: the candidate lists of a scan hold no path twice, and no issue is
\* output twice.
C22_NoDuplicateCandidates ==
  scan.pc = "done" =>
    /\ NoDuplicates(scan.sourceFiles)
    /\ NoDuplicates(scan.cssFiles)
    /\ NoDuplicates(scan.issues)

\* attributes whose value is text a person writes for the reader
HumanAuthored == AriaLabelAttr \cup AltAttr
\* the explicit placeholder values
TodoValues == {"TODO: label", "TODO: describe image", "TODO: Add descriptive alt text"}

\* C21: every label or alternative text a handler has inserted carries a
\* TODO placeholder, or the empty value of a decorative image, or a value
\* that stood in an attribute of the same line before the run.
C21_InsertedValuesNotInvented ==
  (nruns >= 1 /\ last.success) =>
    LET f == last.issue.file
        ln == last.issue.line
        old == last.pre[f][ln]
        new == files[f][ln]
    IN \A k \in 1..Len(new) :
         (new[k] \in HumanAuthored /\ ~Test(old, {new[k]})) =>
           \/ AttrValue(new[k]) \in TodoValues \cup {""}
           \/ \E j \in 1..Len(old) : AttrValue(old[j]) = AttrValue(new[k])

====
